---------------------------- MODULE Spec2Model ----------------------------
(***************************************************************************)
(* A model of jira-data-download-and-analysis.ipynb: the authenticated     *)
(* request client, the six paginated fetch loops, and the notebook cell    *)
(* that projects, renames and enriches the issue table.                    *)
(*                                                                         *)
(* Three specifications share the variables:                               *)
(*   SpecClient   one call of jira_auth_get_connect                        *)
(*   Spec         one run of one of the six jira_get_* pagination loops    *)
(*   SpecEnhance  the cell computing df_issues_enhanced                    *)
(***************************************************************************)
EXTENDS Integers, Sequences, FiniteSets, TLC

(***************************************************************************)
(* Bounds of the model                                                     *)
(***************************************************************************)
\* the server holds between 0 and MaxRecords records
MaxRecords == 210
\* the issue table of the enrichment cell holds between 0 and MaxIssues issues
MaxIssues == 2
\* the tables of the aggregation cells hold between 1 and MaxAggIssues issues
MaxAggIssues == 3
\* a board has between 0 and MaxSprints sprints, a sprint between 0 and
\* MaxSprintIssues issues
MaxSprints == 2
MaxSprintIssues == 2
\* the concatenated sprint-issue table holds between 1 and MaxJoinRows rows
MaxJoinRows == 3

\* the number of issues of the tables with a full ancestry (an issue, its
\* parent and the parent of its parent)
MaxChain == 3

(***************************************************************************)
(* Python values                                                           *)
(***************************************************************************)
\* os.environ.get(...) of a variable that is not set
None == "None"
\* no exception has been raised
NoException == "none"

Min(a, b) == IF a < b THEN a ELSE b

(***************************************************************************)
(* Configuration: the three module-level values read at start-up.          *)
(***************************************************************************)
ConfigValues(v) == {None, v}

(***************************************************************************)
(* jira_auth_get_connect                                                   *)
(***************************************************************************)
\* the JSON body of a response: the array and the key it is stored under
Body(key, items) == [key |-> key, items |-> items]
EmptyBody == Body("", <<>>)

\* the result when no HTTP exchange has taken place
NoExchange == [kind |-> "none", status |-> 0, error |-> "none", text |-> EmptyBody]

\* an exchange that ended with a status line and a body
StatusExchange(st, body) ==
    [kind |-> "status", status |-> st, error |-> "none", text |-> body]

\* an exchange that ended without a response (requests raises the named error)
TransportFailure(err) ==
    [kind |-> "transport", status |-> 0, error |-> err, text |-> EmptyBody]

\* response.raise_for_status(): raises requests.exceptions.HTTPError for a
\* client error (4xx) or a server error (5xx) status, and for nothing else
raise_for_status_5xx(status) == 500 <= status /\ status < 600
raise_for_status(status) == 400 <= status /\ status < 600

\* server + url_path and user + ":" + apikey are evaluated before the try
\* block: str + None and None + str raise TypeError
BuildRaises_never(u, k, s) == FALSE
BuildRaises(u, k, s) == s = None \/ u = None \/ k = None

\* The value the call hands to its caller.
\*   tag "response": the requests.Response (status, text)
\*   tag "error":    the caught exception object, returned as a value
\*   tag "raise":    an exception that leaves the function
\* requests.exceptions.HTTPError is no urllib.error.HTTPError, so the first
\* except clause never matches and the second one catches both kinds.
jira_auth_get_connect(u, k, s, exch) ==
    IF BuildRaises(u, k, s)
    THEN [tag |-> "raise", type |-> "TypeError", status |-> 0, text |-> EmptyBody]
    ELSE IF exch.kind = "transport"
    THEN [tag |-> "error", type |-> exch.error, status |-> 0, text |-> EmptyBody]
    ELSE IF raise_for_status(exch.status)
    THEN [tag |-> "error", type |-> "requests.exceptions.HTTPError",
          status |-> exch.status, text |-> EmptyBody]
    ELSE [tag |-> "response", type |-> "requests.Response",
          status |-> exch.status, text |-> exch.text]

\* the value of the local variable response before any call
NoResponse == [tag |-> "none", type |-> "none", status |-> 0, text |-> EmptyBody]


(***************************************************************************)
(* pd.json_normalize on a list of flat JSON objects.  An object is a       *)
(* sequence of <<key, value>> pairs; the table has one column per key, in  *)
(* order of first appearance, one row per object, and NaN where an object  *)
(* lacks the key.                                                          *)
(***************************************************************************)
NaN == "NaN"

SeqContains(s, x) == \E i \in 1..Len(s) : s[i] = x

\* the keys of one object, appended to cols when new
RECURSIVE AddKeys(_, _, _)
AddKeys(cols, obj, i) ==
    IF i > Len(obj) THEN cols
    ELSE AddKeys(IF SeqContains(cols, obj[i][1]) THEN cols
                 ELSE Append(cols, obj[i][1]), obj, i + 1)

\* the keys of objs[lo..hi] in order of first appearance (halving keeps the
\* recursion shallow)
RECURSIVE KeysOf(_, _, _)
KeysOf(objs, lo, hi) ==
    IF lo > hi THEN <<>>
    ELSE IF lo = hi THEN AddKeys(<<>>, objs[lo], 1)
    ELSE LET mid == (lo + hi) \div 2
             a == KeysOf(objs, lo, mid)
             b == KeysOf(objs, mid + 1, hi)
         IN  a \o SelectSeq(b, LAMBDA k : ~SeqContains(a, k))

AllKeys(objs) == KeysOf(objs, 1, Len(objs))

\* the value an object holds under a key, NaN when it has none
Lookup(obj, key) ==
    IF \E i \in 1..Len(obj) : obj[i][1] = key
    THEN obj[CHOOSE i \in 1..Len(obj) : obj[i][1] = key][2]
    ELSE NaN

json_normalize_drop_last(objs) ==
    LET cols == AllKeys(objs)
        n == IF Len(objs) = 0 THEN 0 ELSE Len(objs) - 1
    IN  [columns |-> cols,
         rows |-> [r \in 1..n |-> [c \in 1..Len(cols) |-> Lookup(objs[r], cols[c])]]]

json_normalize(objs) ==
    LET cols == AllKeys(objs)
    IN  [columns |-> cols,
         rows |-> [r \in 1..Len(objs) |->
                     [c \in 1..Len(cols) |-> Lookup(objs[r], cols[c])]]]

\* pd.DataFrame before any assignment
NoTable == [columns |-> <<>>, rows |-> <<>>]

(***************************************************************************)
(* The notebook's constants                                                *)
(***************************************************************************)
\* Mapping of Jira colors to Python colors
COLOR_DICT_yellow_unmapped ==
    ("purple" :> "purple") @@ ("dark_blue" :> "darkblue")
    @@ ("grey" :> "grey") @@ ("dark_purple" :> "purple")
    @@ ("blue" :> "blue") @@ ("dark_orange" :> "orange")
    @@ ("dark_yellow" :> "gold") @@ ("blue-gray" :> "dodgerblue")
    @@ ("green" :> "green")
COLOR_DICT ==
    ("purple" :> "purple") @@ ("dark_blue" :> "darkblue")
    @@ ("yellow" :> "orange") @@ ("grey" :> "grey")
    @@ ("dark_purple" :> "purple") @@ ("blue" :> "blue")
    @@ ("dark_orange" :> "orange") @@ ("dark_yellow" :> "gold")
    @@ ("blue-gray" :> "dodgerblue") @@ ("green" :> "green")

\* the whitelist of flattened field paths (a list in the notebook, used
\* only through isin; fields.status.statusCategory.colorName is listed twice)
RELEVANT_FIELDS ==
    {"fields.project.name", "fields.project.id", "id", "key",
     "fields.summary", "fields.description", "fields.issuetype.name",
     "fields.customfield_10011", "fields.customfield_10017",
     "fields.created", "fields.status.name",
     "fields.status.statusCategory.key",
     "fields.status.statusCategory.name",
     "fields.status.statusCategory.colorName", "fields.priority.name",
     "fields.customfield_10026", "fields.creator.displayName",
     "fields.assignee.displayName", "fields.reporter.displayName",
     "fields.issuetype.subtask", "fields.fixVersions", "fields.parent.id",
     "fields.parent.key", "fields.parent.fields.summary",
     "fields.parent.fields.status.name",
     "fields.parent.fields.status.statusCategory.key",
     "fields.parent.fields.status.statusCategory.name",
     "fields.parent.fields.status.statusCategory.colorName",
     "fields.parent.fields.priority.name",
     "fields.parent.fields.issuetype.name",
     "fields.parent.fields.issuetype.subtask", "fields.aggregatetimespent",
     "fields.resolution", "fields.resolutiondate", "fields.lastViewed",
     "fields.labels", "fields.aggregatetimeoriginalestimate",
     "fields.aggregatetimeestimate", "fields.timeestimate",
     "fields.updated", "fields.aggregateprogress.progress",
     "fields.aggregateprogress.total", "fields.aggregateprogress.percent",
     "fields.progress.percent", "fields.timeoriginalestimate",
     "fields.duedate", "fields.progress.progress", "fields.progress.total",
     "fields.resolution.name", "fields.statuscategorychangedate",
     "fields.status.statusCategory.colorName"}

\* Dictionary to change the standard Jira field name to our own wording
\* (the one repeated key, fields.status.statusCategory.colorName, has the
\* same value both times)
COLUMN_NAME_DICT ==
    ("fields.project.name" :> "project_name")
    @@ ("fields.project.id" :> "project_id")
    @@ ("id" :> "issue_id")
    @@ ("key" :> "issue_key")
    @@ ("fields.summary" :> "summary")
    @@ ("fields.description" :> "description")
    @@ ("fields.issuetype.name" :> "issuetype")
    @@ ("fields.customfield_10011" :> "epic_name")
    @@ ("fields.customfield_10017" :> "epic_color")
    @@ ("fields.created" :> "created")
    @@ ("fields.status.name" :> "status")
    @@ ("fields.status.statusCategory.key" :> "status_cat_key")
    @@ ("fields.status.statusCategory.name" :> "status_cat_name")
    @@ ("fields.status.statusCategory.colorName" :> "status_cat_color")
    @@ ("fields.priority.name" :> "prio")
    @@ ("fields.customfield_10026" :> "storypoints")
    @@ ("fields.creator.displayName" :> "creator")
    @@ ("fields.assignee.displayName" :> "assignee")
    @@ ("fields.reporter.displayName" :> "reporter")
    @@ ("fields.issuetype.subtask" :> "is_subtask")
    @@ ("fields.fixVersions" :> "fix_versions")
    @@ ("fields.parent.id" :> "parent_id")
    @@ ("fields.parent.key" :> "parent_key")
    @@ ("fields.parent.fields.summary" :> "parent_summary")
    @@ ("fields.parent.fields.status.name" :> "parent_status")
    @@ ("fields.parent.fields.status.statusCategory.key" :> "parent_status_cat_key")
    @@ ("fields.parent.fields.status.statusCategory.name" :> "parent_status_cat")
    @@ ("fields.parent.fields.status.statusCategory.colorName" :> "parent_status_cat_color")
    @@ ("fields.parent.fields.priority.name" :> "parent_prio")
    @@ ("fields.parent.fields.issuetype.name" :> "parent_issuetype")
    @@ ("fields.parent.fields.issuetype.subtask" :> "parent_is_subtask")
    @@ ("fields.aggregatetimespent" :> "aggregatetimespent")
    @@ ("fields.resolution" :> "resolution")
    @@ ("fields.resolutiondate" :> "resolution_date")
    @@ ("fields.lastViewed" :> "last_viewed")
    @@ ("fields.labels" :> "labels")
    @@ ("fields.aggregatetimeoriginalestimate" :> "aggregatetimeoriginalestimate")
    @@ ("fields.aggregatetimeestimate" :> "aggregatetimeestimate")
    @@ ("fields.timeestimate" :> "timeestimate")
    @@ ("fields.updated" :> "updated")
    @@ ("fields.aggregateprogress.progress" :> "aggregateprogress")
    @@ ("fields.aggregateprogress.total" :> "aggregateprogress_total")
    @@ ("fields.aggregateprogress.percent" :> "aggregateprogress_percent")
    @@ ("fields.progress.percent" :> "progress_percent")
    @@ ("fields.timeoriginalestimate" :> "timeoriginalestimate")
    @@ ("fields.duedate" :> "duedate")
    @@ ("fields.progress.progress" :> "progress")
    @@ ("fields.progress.total" :> "progress_total")
    @@ ("fields.resolution.name" :> "resolution")
    @@ ("fields.statuscategorychangedate" :> "status_cat_changedate")
    @@ ("fields.status.statusCategory.colorName" :> "status_cat_color")

(***************************************************************************)
(* The remote service, as seen by one paginated fetch: a fixed collection  *)
(* of `total` records; a request {startAt: o, maxResults: m} is answered   *)
(* with the records o .. min(o + min(m, serverCap), total) - 1, or with an *)
(* error status, or not at all.                                            *)
(***************************************************************************)
\* the i-th record of the collection, a flat JSON object
ServerRecord(i) == << <<"id", i>> >>

\* the array key each endpoint answers with
EndpointKey(path) ==
    CASE path = "/rest/api/latest/search" -> "issues"
      [] path = "/rest/api/latest/project/search" -> "values"
      [] path = "/rest/agile/1.0/board" -> "values"
      [] path = "/rest/agile/1.0/board/{board_id}/sprint" -> "values"
      [] path = "/rest/agile/1.0/board/{board_id}/backlog" -> "issues"
      [] path = "/rest/agile/1.0/sprint/{sprint_id}/issue" -> "issues"
      [] OTHER -> "values"

ServerPage(n, cap, o, m) ==
    LET last == Min(o + Min(m, cap), n)
    IN  IF o >= last THEN <<>>
        ELSE [i \in 1..(last - o) |-> ServerRecord(o + i)]

\* statuses and failures a request of a fetch can end with
ErrorStatuses == {401, 500}
TransportErrors == {"requests.exceptions.ConnectionError"}

ServerExchanges(path, n, cap, o, m) ==
    {StatusExchange(200, Body(EndpointKey(path), ServerPage(n, cap, o, m)))}
    \cup {StatusExchange(st, EmptyBody) : st \in ErrorStatuses}
    \cup {TransportFailure(e) : e \in TransportErrors}


(***************************************************************************)
(* State                                                                   *)
(***************************************************************************)
VARIABLES
    \* module-level configuration (os.environ.get at start-up)
    user, apikey, server,
    \* one call of jira_auth_get_connect: its arguments, its position, the
    \* HTTP exchange it performed and the value it handed back
    call, conn_pc, conn_exchange, conn_result,
    \* one paginated fetch: the function running and its argument
    fetcher, extra,
    \* the remote collection it reads and the largest page the server serves
    total, serverCap,
    \* the locals of the loop
    all_records, start_position, has_next, response,
    \* the params of every request sent so far, in order
    requests,
    \* its position, the exception that left it, the table it returned
    pc, raised, result,
    \* the cell computing df_issues_enhanced: the table jira_get_issues
    \* returned, the tables the cell assigns, its position and the exception
    \* that ended it
    df_issues, df_epics, df_issues_enhanced, cell_pc, cell_raised,
    \* the aggregation cells: the table jira_get_board_issues returned, the
    \* four tables the cells assign, and how many of the cells have run
    df_issues_in_sprints, df_issues_per_type, df_issues_per_epic,
    df_issues_per_project, df_issues_per_sprint, agg_pc,
    \* one call of jira_get_board_issues: the number of sprints of the board
    \* and of issues of each sprint on the server, the locals of the
    \* function, the index of the sprint the for loop is at, every request
    \* sent so far, the position, the exception that left it, the table it
    \* returned
    sprint_count, issue_counts, df_all_sprints, sprint_ids, sprint_index,
    issue_rows, board_log, board_pc, board_raised, df_board_issues_enhanced,
    \* the six fetch functions run side by side against the same server
    \* outcomes: the size of the collection, the locals of each function,
    \* the outcomes so far, whether the comparison is running
    six_total, six, six_outcomes, six_pc

clientVars == <<call, conn_pc, conn_exchange, conn_result>>
fetchVars == <<fetcher, extra, total, serverCap, all_records, start_position,
               has_next, response, requests, pc, raised, result>>
configVars == <<user, apikey, server>>
cellVars == <<df_issues, df_epics, df_issues_enhanced, cell_pc, cell_raised>>
aggVars == <<df_issues_in_sprints, df_issues_per_type, df_issues_per_epic,
             df_issues_per_project, df_issues_per_sprint, agg_pc>>
boardVars == <<sprint_count, issue_counts, df_all_sprints, sprint_ids,
               sprint_index, issue_rows, board_log, board_pc, board_raised,
               df_board_issues_enhanced>>
sixVars == <<six_total, six, six_outcomes, six_pc>>
vars == <<configVars, clientVars, fetchVars, cellVars, aggVars, boardVars,
          sixVars>>

\* the three values are each either set or missing from the environment
InitConfig ==
    /\ user \in ConfigValues("user@example.com")
    /\ apikey \in ConfigValues("api-key")
    /\ server \in ConfigValues("https://example.atlassian.net")

\* all three are set: jira_get_issues could not have returned otherwise
Configured ==
    /\ user = "user@example.com"
    /\ apikey = "api-key"
    /\ server = "https://example.atlassian.net"

(***************************************************************************)
(* The paginated fetch loops                                               *)
(***************************************************************************)
block_size == 100

Fetchers == {"jira_get_issues", "jira_get_all_projects", "jira_get_boards",
             "jira_get_sprints", "jira_get_backlog_issues",
             "jira_get_sprint_issues"}

\* the values of the optional argument (jql, project_key); '' is its default
ExtraValues(f) ==
    CASE f = "jira_get_issues" -> {"", "project=abc"}
      [] f = "jira_get_boards" -> {"", "abc"}
      [] OTHER -> {""}

\* pages the server is willing to serve: full pages, or capped at half
ServerCaps == {block_size \div 2, block_size}

\* params = {'startAt': start_position, 'maxResults': block_size}, plus the
\* extra entry when the argument is not ''
Params(start, extraName, extraValue) ==
    [startAt |-> start, maxResults |-> block_size,
     extraName |-> IF extraValue # "" THEN extraName ELSE "",
     extraValue |-> extraValue]

\* if len(block) == 0: has_next = False
NextHasNext_short_page_stops(block, hn) ==
    IF Len(block) < block_size THEN FALSE ELSE hn
NextHasNext_first_page_only(block, hn) == FALSE
NextHasNext(block, hn) == IF Len(block) = 0 THEN FALSE ELSE hn

\* start_position += block_size
NextStart_by_received(start, block) == start + Len(block)
NextStart(start, block) == start + block_size

\* What the statements after the call do with the value it returned:
\* "extend" (the page is appended), "break", or the exception that leaves
\* the function.
\*   guarded:   the body is under
\*              `if type(response) is not requests.exceptions.HTTPError`
\*   jsonBound: the function executes `import json`; the notebook never
\*              imports json at top level, so without it the name is unbound
Handle_unguarded(resp, key, guarded, jsonBound) ==
    IF resp.tag = "raise" THEN resp.type
    ELSE IF ~jsonBound THEN "NameError"
    ELSE IF resp.tag = "error" THEN "AttributeError"
    ELSE IF resp.text.key # key THEN "KeyError"
    ELSE "extend"

Handle_any_error_breaks(resp, key, guarded, jsonBound) ==
    IF resp.tag = "raise" THEN resp.type
    ELSE IF resp.tag = "error" THEN "break"
    ELSE IF resp.text.key # key THEN "KeyError"
    ELSE "extend"

Handle(resp, key, guarded, jsonBound) ==
    IF resp.tag = "raise" THEN resp.type
    ELSE IF guarded /\ resp.type = "requests.exceptions.HTTPError" THEN "break"
    ELSE IF ~jsonBound THEN "NameError"
    ELSE IF resp.tag = "error" THEN "AttributeError"
    ELSE IF resp.text.key # key THEN "KeyError"
    ELSE "extend"

\* one pass through the body of `while has_next:` against a server that
\* answers the request with one of exchanges: the locals of the loop
LoopBody(exchanges, key, extraName, guarded, jsonBound) ==
    /\ pc = "loop"
    /\ has_next
    /\ \E exch \in exchanges :
         LET resp == jira_auth_get_connect(user, apikey, server, exch)
             outcome == Handle(resp, key, guarded, jsonBound)
             block == resp.text.items
         IN  /\ response' = resp
             /\ requests' = IF resp.tag = "raise" THEN requests
                            ELSE Append(requests, Params(start_position, extraName, extra))
             /\ IF outcome = "extend"
                THEN /\ all_records' = all_records \o block
                     /\ has_next' = NextHasNext(block, has_next)
                     /\ start_position' = NextStart(start_position, block)
                     /\ pc' = "loop"
                     /\ raised' = raised
                ELSE /\ UNCHANGED <<all_records, has_next, start_position>>
                     /\ pc' = IF outcome = "break" THEN "break" ELSE "raised"
                     /\ raised' = IF outcome = "break" THEN raised
                                  ELSE outcome

\* one pass through the loop of a fetch function called on its own
LoopIteration(path, key, extraName, guarded, jsonBound) ==
    /\ LoopBody(ServerExchanges(path, total, serverCap, start_position, block_size),
                key, extraName, guarded, jsonBound)
    /\ UNCHANGED <<fetcher, extra, total, serverCap, result>>
    /\ UNCHANGED <<configVars, clientVars, cellVars, aggVars, boardVars, sixVars>>

\* df = pd.json_normalize(all_records); return df
ReturnFrame ==
    /\ (pc = "loop" /\ ~has_next) \/ pc = "break"
    /\ result' = json_normalize(all_records)
    /\ pc' = "returned"
    /\ UNCHANGED <<fetcher, extra, total, serverCap, all_records,
                   start_position, has_next, response, requests, raised>>
    /\ UNCHANGED <<configVars, clientVars, cellVars, aggVars, boardVars, sixVars>>

jira_get_issues ==
    /\ fetcher = "jira_get_issues"
    /\ \/ LoopIteration("/rest/api/latest/search", "issues", "jql", FALSE, TRUE)
       \/ ReturnFrame

jira_get_all_projects ==
    /\ fetcher = "jira_get_all_projects"
    /\ \/ LoopIteration("/rest/api/latest/project/search", "values", "", FALSE, TRUE)
       \/ ReturnFrame

jira_get_boards ==
    /\ fetcher = "jira_get_boards"
    /\ \/ LoopIteration("/rest/agile/1.0/board", "values", "projectKeyOrId", FALSE, TRUE)
       \/ ReturnFrame

jira_get_sprints ==
    /\ fetcher = "jira_get_sprints"
    /\ \/ LoopIteration("/rest/agile/1.0/board/{board_id}/sprint", "values", "", TRUE, TRUE)
       \/ ReturnFrame

jira_get_backlog_issues ==
    /\ fetcher = "jira_get_backlog_issues"
    /\ \/ LoopIteration("/rest/agile/1.0/board/{board_id}/backlog", "issues", "", TRUE, FALSE)
       \/ ReturnFrame

jira_get_sprint_issues ==
    /\ fetcher = "jira_get_sprint_issues"
    /\ \/ LoopIteration("/rest/agile/1.0/sprint/{sprint_id}/issue", "issues", "", TRUE, TRUE)
       \/ ReturnFrame

\* no call of the request client is being followed
IdleClient ==
    /\ call = [url_path |-> "", param |-> FALSE, body |-> FALSE]
    /\ conn_pc = "idle"
    /\ conn_exchange = NoExchange
    /\ conn_result = NoResponse

\* no fetch is running
IdleFetch ==
    /\ fetcher = "none"
    /\ extra = ""
    /\ total = 0
    /\ serverCap = block_size
    /\ all_records = <<>>
    /\ start_position = 0
    /\ has_next = FALSE
    /\ response = NoResponse
    /\ requests = <<>>
    /\ pc = "idle"
    /\ raised = NoException
    /\ result = NoTable

\* the cell computing df_issues_enhanced is not being run
IdleCell ==
    /\ df_issues = NoTable
    /\ df_epics = NoTable
    /\ df_issues_enhanced = NoTable
    /\ cell_pc = "idle"
    /\ cell_raised = NoException

\* no aggregation cell has been run
IdleAgg ==
    /\ df_issues_in_sprints = NoTable
    /\ df_issues_per_type = NoTable
    /\ df_issues_per_epic = NoTable
    /\ df_issues_per_project = NoTable
    /\ df_issues_per_sprint = NoTable
    /\ agg_pc = "idle"

\* jira_get_board_issues has not been called
IdleBoard ==
    /\ sprint_count = 0
    /\ issue_counts = <<>>
    /\ df_all_sprints = NoTable
    /\ sprint_ids = <<>>
    /\ sprint_index = 0
    /\ issue_rows = <<>>
    /\ board_log = <<>>
    /\ board_pc = "idle"
    /\ board_raised = NoException
    /\ df_board_issues_enhanced = NoTable

\* the six fetch functions are not being compared
IdleSix ==
    /\ six_total = 0
    /\ six = <<>>
    /\ six_outcomes = <<>>
    /\ six_pc = "idle"

\* nothing but the part under study is running
IdleRest == IdleAgg /\ IdleBoard /\ IdleSix

\* a fetch function has been called and has run up to its `while`
Init ==
    /\ InitConfig
    /\ IdleClient
    /\ IdleCell
    /\ IdleRest
    /\ fetcher \in Fetchers
    /\ extra \in ExtraValues(fetcher)
    /\ total \in 0..MaxRecords
    /\ serverCap \in ServerCaps
    /\ all_records = <<>>
    /\ start_position = 0
    /\ has_next = TRUE
    /\ response = NoResponse
    /\ requests = <<>>
    /\ pc = "loop"
    /\ raised = NoException
    /\ result = NoTable

Next ==
    \/ jira_get_issues
    \/ jira_get_all_projects
    \/ jira_get_boards
    \/ jira_get_sprints
    \/ jira_get_backlog_issues
    \/ jira_get_sprint_issues

Spec == Init /\ [][Next]_vars

\* collection sizes around the page boundaries: none, one record, a page
\* and a half page more or less, two pages, the largest
BoundaryTotals ==
    {0, 1, block_size \div 2 + 1, block_size, block_size + 1,
     2 * block_size, MaxRecords}

InitFair == Init /\ total \in BoundaryTotals

\* a run of a function that is not interrupted: the interpreter executes
\* the next statement of the loop whenever there is one, and the request
\* client answers every call
SpecFair == InitFair /\ [][Next]_vars /\ WF_vars(Next)


(***************************************************************************)
(* One call of the request client                                          *)
(***************************************************************************)
\* the arguments of a call: the path, and whether param= and body= are given
Calls == [url_path : {"/rest/api/latest/search", "/rest/agile/1.0/issue/BEAS-298"},
          param : BOOLEAN, body : BOOLEAN]

\* the ways an HTTP exchange can end: a final status, or no response at all
ClientStatuses == {200, 201, 204, 304, 400, 401, 403, 404, 429, 500, 503}
ClientTransportErrors == {"requests.exceptions.ConnectionError",
                          "requests.exceptions.Timeout",
                          "requests.exceptions.TooManyRedirects"}
ClientExchanges ==
    {StatusExchange(st, Body("issues", <<>>)) : st \in ClientStatuses}
    \cup {TransportFailure(e) : e \in ClientTransportErrors}

\* the whole call: nothing is sent when building the URL or the header raises
jira_auth_get_connect_call ==
    /\ conn_pc = "called"
    /\ \E exch \in ClientExchanges :
         LET done == IF BuildRaises(user, apikey, server) THEN NoExchange ELSE exch
         IN  /\ conn_exchange' = done
             /\ conn_result' = jira_auth_get_connect(user, apikey, server, done)
    /\ conn_pc' = "done"
    /\ UNCHANGED <<call, configVars, fetchVars, cellVars, aggVars, boardVars, sixVars>>

InitClient ==
    /\ InitConfig
    /\ IdleFetch
    /\ IdleCell
    /\ IdleRest
    /\ call \in Calls
    /\ conn_pc = "called"
    /\ conn_exchange = NoExchange
    /\ conn_result = NoResponse

NextClient == jira_auth_get_connect_call

SpecClient == InitClient /\ [][NextClient]_vars

(***************************************************************************)
(* Properties of the paginated fetch (specification Spec)                  *)
(***************************************************************************)
\* the fetch has returned and every request was answered with a page, by a
\* server that serves pages of the size asked for
CompletedOnPagesOnly ==
    /\ pc = "returned"
    /\ response.tag = "response"
    /\ serverCap >= block_size

CeilDiv(a, b) == (a + b - 1) \div b

ParsingFetchers == Fetchers \ {"jira_get_backlog_issues"}

\* the step is a loop iteration that received a successful page with at
\* least one element
ReceivedNonEmptyPage ==
    /\ pc = "loop"
    /\ has_next
    /\ requests' # requests
    /\ response'.tag = "response"
    /\ Len(response'.text.items) > 0

RECURSIVE PagesBefore(_)
PagesBefore(k) ==
    IF k <= 1 THEN <<>>
    ELSE PagesBefore(k - 1)
         \o ServerPage(total, serverCap, (k - 2) * block_size, block_size)

\* C4: once the request client has handed back an error value, the fetcher
\* neither raises nor goes on: it leaves the loop and returns exactly the
\* records of the preceding successful pages.
C4_ErrorStopsSilently ==
    response.tag = "error" =>
        /\ raised = NoException
        /\ pc \in {"break", "returned"}
        /\ all_records = PagesBefore(Len(requests))
        /\ (pc = "returned" => result = json_normalize(PagesBefore(Len(requests))))

(***************************************************************************)
(* Properties of the request client (specification SpecClient)             *)
(***************************************************************************)
ConfigComplete == user # None /\ apikey # None /\ server # None

\* C5: every call returns the response object or the captured error value,
\* never lets an exception leave, and returns a response object only for a
\* 2xx status.
C5_NeverThrowsResponseOnly2xx ==
    conn_pc = "done" =>
        /\ conn_result.tag \in {"response", "error"}
        /\ (conn_result.tag = "response" =>
                (200 <= conn_result.status /\ conn_result.status < 300))

\* C6: with a configuration value missing, the first call still sends its
\* request, and the outcome is an authentication failure handed back as an
\* error value.
C6_MissingConfigIsAuthFailure ==
    (conn_pc = "done" /\ ~ConfigComplete) =>
        /\ conn_exchange.kind = "status"
        /\ conn_exchange.status \in {401, 403}
        /\ conn_result.tag = "error"


(***************************************************************************)
(* pandas operations used by the enrichment cell.  A table is a sequence   *)
(* of column labels (labels may repeat) and a sequence of rows.            *)
(***************************************************************************)
HasColumn(t, label) == SeqContains(t.columns, label)

\* the first column carrying the label
ColIndex(t, label) ==
    CHOOSE c \in 1..Len(t.columns) :
        t.columns[c] = label /\ \A d \in 1..(c - 1) : t.columns[d] # label

Cell(t, r, label) == t.rows[r][ColIndex(t, label)]

\* the positions of all columns carrying the label, ascending
Positions(t, label) ==
    SelectSeq([c \in 1..Len(t.columns) |-> c], LAMBDA c : t.columns[c] = label)

RECURSIVE LabelPositions(_, _, _)
LabelPositions(t, labels, i) ==
    IF i > Len(labels) THEN <<>>
    ELSE Positions(t, labels[i]) \o LabelPositions(t, labels, i + 1)

TakeColumns(t, pos) ==
    [columns |-> [i \in 1..Len(pos) |-> t.columns[pos[i]]],
     rows |-> [r \in 1..Len(t.rows) |-> [i \in 1..Len(pos) |-> t.rows[r][pos[i]]]]]

\* df[labels]: every column carrying one of the labels, label by label;
\* KeyError when a label is no column
MissingLabel(t, labels) == \E i \in 1..Len(labels) : ~HasColumn(t, labels[i])
GetItem(t, labels) == TakeColumns(t, LabelPositions(t, labels, 1))

\* df.rename(columns=d)
rename(t, d) ==
    [t EXCEPT !.columns = [i \in 1..Len(t.columns) |->
        IF t.columns[i] \in DOMAIN d THEN d[t.columns[i]] ELSE t.columns[i]]]

\* df.drop(labels, axis=1)
drop(t, labels) ==
    TakeColumns(t, SelectSeq([c \in 1..Len(t.columns) |-> c],
                             LAMBDA c : ~SeqContains(labels, t.columns[c])))

isnull(v) == v = NaN

\* the column with the label, replaced by vals (one value per row)
SetColumn(t, label, vals) ==
    [t EXCEPT !.rows = [r \in 1..Len(t.rows) |->
        [c \in 1..Len(t.columns) |->
            IF t.columns[c] = label THEN vals[r] ELSE t.rows[r][c]]]]

\* pd.merge(left, right, how='left', left_on=.., right_on=..): the left rows
\* in order, each joined to every right row with an equal key (NaN keys
\* compare equal), or to NaN when there is none; labels the two tables share
\* get the suffixes _x and _y
RECURSIVE JoinedRows(_, _, _, _, _)
JoinedRows(left, right, lk, rk, l) ==
    IF l > Len(left.rows) THEN <<>>
    ELSE LET row == left.rows[l]
             hits == SelectSeq(right.rows, LAMBDA rr : rr[rk] = row[lk])
             joined == IF hits = <<>>
                       THEN << row \o [c \in 1..Len(right.columns) |-> NaN] >>
                       ELSE [j \in 1..Len(hits) |-> row \o hits[j]]
         IN  joined \o JoinedRows(left, right, lk, rk, l + 1)

merge_left(left, right, left_on, right_on) ==
    [columns |->
        [i \in 1..Len(left.columns) |->
            IF HasColumn(right, left.columns[i])
            THEN left.columns[i] \o "_x" ELSE left.columns[i]]
        \o [i \in 1..Len(right.columns) |->
            IF HasColumn(left, right.columns[i])
            THEN right.columns[i] \o "_y" ELSE right.columns[i]],
     rows |-> JoinedRows(left, right, ColIndex(left, left_on),
                         ColIndex(right, right_on), 1)]

(***************************************************************************)
(* The cell computing df_issues_enhanced                                   *)
(***************************************************************************)
\* df_issues[df_issues.columns[df_issues.columns.isin(RELEVANT_FIELDS)]]
SelectRelevant_keep_all(t) == t
SelectRelevant(t) ==
    GetItem(t, SelectSeq(t.columns, LAMBDA c : c \in RELEVANT_FIELDS))

\* the projector: select the whitelisted columns, then rename them
Project(t) == rename(SelectRelevant(t), COLUMN_NAME_DICT)

\* df.loc[df[x].isnull(), x] = df[y]
FillFromParent_overwrite(own, parent) == IF isnull(parent) THEN own ELSE parent
FillFromParent(own, parent) == IF isnull(own) THEN parent ELSE own

\* series.fillna(value)
fillna_keeps_null(v, value) == v
fillna(v, value) == IF isnull(v) THEN value ELSE v

\* COLOR_DICT.get(x, 'white')
COLOR_DICT_get_default_self(x) == IF x \in DOMAIN COLOR_DICT THEN COLOR_DICT[x] ELSE x
COLOR_DICT_get(x) == IF x \in DOMAIN COLOR_DICT THEN COLOR_DICT[x] ELSE "white"

EpicColumns == <<"issue_id", "epic_name", "epic_color">>

\* the merge with df_epics and the statements up to fillna('No Epic')
AddEpics_two_levels(t, epics) ==
    LET first == merge_left(t, epics, "parent_id", "issue_id")
        deep == [epics EXCEPT !.rows = [r \in 1..Len(epics.rows) |->
                    [epics.rows[r] EXCEPT
                        ![2] = FillFromParent(@, Cell(first, r, "epic_name_y"))]]]
        m == merge_left(t, deep, "parent_id", "issue_id")
        named == SetColumn(m, "epic_name_x",
                    [r \in 1..Len(m.rows) |->
                        FillFromParent(Cell(m, r, "epic_name_x"),
                                       Cell(m, r, "epic_name_y"))])
        colored == SetColumn(named, "epic_color_x",
                    [r \in 1..Len(m.rows) |->
                        FillFromParent(Cell(named, r, "epic_color_x"),
                                       Cell(named, r, "epic_color_y"))])
        dropped == drop(colored, <<"issue_id_y", "epic_name_y", "epic_color_y">>)
        renamed == rename(dropped, ("issue_id_x" :> "issue_id")
                                   @@ ("epic_name_x" :> "epic_name")
                                   @@ ("epic_color_x" :> "epic_color"))
    IN  SetColumn(renamed, "epic_name",
            [r \in 1..Len(renamed.rows) |->
                fillna(Cell(renamed, r, "epic_name"), "No Epic")])
AddEpics(t, epics) ==
    LET m == merge_left(t, epics, "parent_id", "issue_id")
        named == SetColumn(m, "epic_name_x",
                    [r \in 1..Len(m.rows) |->
                        FillFromParent(Cell(m, r, "epic_name_x"),
                                       Cell(m, r, "epic_name_y"))])
        colored == SetColumn(named, "epic_color_x",
                    [r \in 1..Len(m.rows) |->
                        FillFromParent(Cell(named, r, "epic_color_x"),
                                       Cell(named, r, "epic_color_y"))])
        dropped == drop(colored, <<"issue_id_y", "epic_name_y", "epic_color_y">>)
        renamed == rename(dropped, ("issue_id_x" :> "issue_id")
                                   @@ ("epic_name_x" :> "epic_name")
                                   @@ ("epic_color_x" :> "epic_color"))
    IN  SetColumn(renamed, "epic_name",
            [r \in 1..Len(renamed.rows) |->
                fillna(Cell(renamed, r, "epic_name"), "No Epic")])

ColorColumns == <<"epic_color", "status_cat_color", "parent_status_cat_color">>

\* df[c] = df[c].apply(lambda x: COLOR_DICT.get(x,'white')) for the columns
\* labels[i..]
RECURSIVE ApplyColors(_, _, _)
ApplyColors(t, labels, i) ==
    IF i > Len(labels) THEN t
    ELSE ApplyColors(
            SetColumn(t, labels[i],
                [r \in 1..Len(t.rows) |-> COLOR_DICT_get(Cell(t, r, labels[i]))]),
            labels, i + 1)

\* the first two statements: the projection
ProjectIssues ==
    /\ cell_pc = "start"
    /\ df_issues_enhanced' = Project(df_issues)
    /\ cell_pc' = "projected"
    /\ UNCHANGED <<df_issues, df_epics, cell_raised>>
    /\ UNCHANGED <<configVars, clientVars, fetchVars, aggVars, boardVars, sixVars>>

\* the statements from df_epics to fillna; selecting a missing column, or
\* merging on one, raises KeyError
MergeEpics ==
    /\ cell_pc = "projected"
    /\ IF MissingLabel(df_issues_enhanced, EpicColumns)
       THEN /\ cell_raised' = "KeyError"
            /\ cell_pc' = "raised"
            /\ UNCHANGED <<df_epics, df_issues_enhanced>>
       ELSE /\ df_epics' = GetItem(df_issues_enhanced, EpicColumns)
            /\ IF ~HasColumn(df_issues_enhanced, "parent_id")
               THEN /\ cell_raised' = "KeyError"
                    /\ cell_pc' = "raised"
                    /\ UNCHANGED df_issues_enhanced
               ELSE /\ df_issues_enhanced' = AddEpics(df_issues_enhanced, df_epics')
                    /\ cell_pc' = "merged"
                    /\ UNCHANGED cell_raised
    /\ UNCHANGED df_issues
    /\ UNCHANGED <<configVars, clientVars, fetchVars, aggVars, boardVars, sixVars>>

\* the three colour replacements
ReplaceColors ==
    /\ cell_pc = "merged"
    /\ IF MissingLabel(df_issues_enhanced, ColorColumns)
       THEN /\ cell_raised' = "KeyError"
            /\ cell_pc' = "raised"
            /\ UNCHANGED df_issues_enhanced
       ELSE /\ df_issues_enhanced' = ApplyColors(df_issues_enhanced, ColorColumns, 1)
            /\ cell_pc' = "done"
            /\ UNCHANGED cell_raised
    /\ UNCHANGED <<df_issues, df_epics>>
    /\ UNCHANGED <<configVars, clientVars, fetchVars, aggVars, boardVars, sixVars>>

(***************************************************************************)
(* The issue lists the cell is run on.  Each issue is the flattened JSON   *)
(* object of the search response: id, key and self, the two epic custom    *)
(* fields (null unless set), the status colour, the project key, the       *)
(* resolution (null, or an object with a name), and, when the issue has a  *)
(* parent, the parent's id and status colour.                              *)
(***************************************************************************)
IssueIds == <<"10001", "10002", "10003", "10004">>
OutsideId == "99999"

ColorInputs == <<"purple", "dark_blue", "yellow", "grey", "dark_purple", "blue",
                 "dark_orange", "dark_yellow", "blue-gray", "green",
                 "medium-gray", NaN>>

\* the colour at offset off of a palette starting at k
Pick(k, off) == ColorInputs[((k + off - 1) % Len(ColorInputs)) + 1]

\* every palette with resolved and unresolved issues mixed, and the first
\* palette with all and with no issues resolved
TableVariants ==
    {[palette |-> k, resolved |-> "mixed"] : k \in 1..Len(ColorInputs)}
    \cup {[palette |-> 1, resolved |-> "all"], [palette |-> 1, resolved |-> "none"]}

\* the epic name of issue i when it has one; no two epics share a name
EpicNames == <<"Feature X", "Feature Y", "Feature Z", "Feature W">>

\* per issue: whether it has an own epic name, whether it has an own epic
\* colour, its parent
IssueChoices(n) ==
    [named : BOOLEAN, colored : BOOLEAN,
     parent : {NaN, OutsideId} \cup {IssueIds[j] : j \in 1..n}]

\* the larger tables: issues without own epic colour whose parents, if
\* any, are issues of the table, in the first palette
AncestryChoices(n) ==
    [named : BOOLEAN, colored : {FALSE},
     parent : {NaN} \cup {IssueIds[j] : j \in 1..n}]

AncestryVariant == [palette |-> 1, resolved |-> "mixed"]

\* the row of the parent of issue i, 0 when it has none in the table
ParentRow(ch, i) ==
    IF \E j \in DOMAIN ch : IssueIds[j] = ch[i].parent
    THEN CHOOSE j \in DOMAIN ch : IssueIds[j] = ch[i].parent
    ELSE 0

RECURSIVE ReachesRoot(_, _, _)
ReachesRoot(ch, i, steps) ==
    IF i = 0 THEN TRUE
    ELSE IF steps = 0 THEN FALSE
    ELSE ReachesRoot(ch, ParentRow(ch, i), steps - 1)

\* the parent relation of the remote service has no cycle
Acyclic(ch) == \A i \in DOMAIN ch : ReachesRoot(ch, i, Len(ch))

IsResolved(v, i) == v.resolved = "all" \/ (v.resolved = "mixed" /\ i % 2 = 1)

IssueObject(v, ch, i) ==
    << <<"id", IssueIds[i]>>,
       <<"self", "https://example.atlassian.net/rest/api/latest/issue">>,
       <<"key", "ABC">>,
       <<"fields.customfield_10011",
         IF ch[i].named THEN EpicNames[i] ELSE NaN>>,
       <<"fields.customfield_10017",
         IF ch[i].colored THEN Pick(v.palette, 0) ELSE NaN>>,
       <<"fields.status.statusCategory.colorName", Pick(v.palette, i)>>,
       <<"fields.project.key", "ABC">>,
       IF IsResolved(v, i) THEN <<"fields.resolution.name", "Done">>
       ELSE <<"fields.resolution", NaN>> >>
    \o IF ch[i].parent = NaN THEN <<>>
       ELSE << <<"fields.parent.id", ch[i].parent>>,
               <<"fields.parent.fields.status.statusCategory.colorName",
                 Pick(v.palette, i + 1)>> >>

\* the issue list of a table variant and per-issue choices
IssueList(v, ch) == [i \in DOMAIN ch |-> IssueObject(v, ch, i)]

\* df_issues = jira_get_issues() has returned the table of some issue list
InitEnhance ==
    /\ Configured
    /\ IdleClient
    /\ IdleFetch
    /\ IdleRest
    /\ \/ \E v \in TableVariants, n \in 0..MaxIssues :
            \E ch \in [1..n -> IssueChoices(n)] :
               /\ Acyclic(ch)
               /\ df_issues = json_normalize(IssueList(v, ch))
       \/ \E ch \in [1..MaxChain -> AncestryChoices(MaxChain)] :
            /\ Acyclic(ch)
            /\ df_issues = json_normalize(IssueList(AncestryVariant, ch))
    /\ df_epics = NoTable
    /\ df_issues_enhanced = NoTable
    /\ cell_pc = "start"
    /\ cell_raised = NoException

NextEnhance ==
    \/ ProjectIssues
    \/ MergeEpics
    \/ ReplaceColors

SpecEnhance == InitEnhance /\ [][NextEnhance]_vars


(***************************************************************************)
(* Properties of the enrichment cell (specification SpecEnhance)           *)
(***************************************************************************)
\* the issue's row in the table the cell started from, and its own values
InTable(id) == \E r \in 1..Len(df_issues.rows) : Cell(df_issues, r, "id") = id
RawRow(id) == CHOOSE r \in 1..Len(df_issues.rows) : Cell(df_issues, r, "id") = id
OwnEpicName(id) == Cell(df_issues, RawRow(id), "fields.customfield_10011")
OwnEpicColor(id) == Cell(df_issues, RawRow(id), "fields.customfield_10017")
ParentId(id) ==
    IF HasColumn(df_issues, "fields.parent.id")
    THEN Cell(df_issues, RawRow(id), "fields.parent.id")
    ELSE NaN

EnhancedRows == 1..Len(df_issues_enhanced.rows)
Enhanced(r, label) == Cell(df_issues_enhanced, r, label)

\* the three cases of the backfill, of the rows of df_issues_enhanced
BackfillCases ==
    /\ \A q \in 1..Len(df_issues.rows) :
         Cardinality({r \in EnhancedRows :
             Enhanced(r, "issue_id") = Cell(df_issues, q, "id")}) = 1
    /\ \A r \in EnhancedRows :
         LET id == Enhanced(r, "issue_id")
             own == OwnEpicName(id)
             par == ParentId(id)
             out == Enhanced(r, "epic_name")
         IN  /\ InTable(id)
             /\ ~isnull(own) => out = own
             /\ (isnull(own) /\ InTable(par) /\ ~isnull(OwnEpicName(par)))
                    => out = OwnEpicName(par)
             /\ (isnull(own) /\ isnull(par)) => out = "No Epic"

\* C7: for any projected issue table with unique issue ids the backfill
\* produces a table in which every issue has one row whose epic_name is
\* (1) its own epic name when it has one, whatever its parent carries,
\* (2) its parent's own epic name when it has none and the parent is an
\* issue of the table with an epic name, (3) "No Epic" when it has neither
\* an own epic name nor a parent.
C7_EpicBackfill ==
    cell_pc \in {"merged", "done", "raised"} =>
        /\ cell_raised = NoException
        /\ BackfillCases

\* the three cases hold of every table the backfill does produce
C7_EpicBackfillWhereMerged ==
    cell_pc \in {"merged", "done"} => BackfillCases

\* the backfill raised on a table whose only issue has neither an own
\* epic name nor a parent
C7_RaisedOnParentlessTable ==
    /\ cell_pc = "raised"
    /\ cell_raised = "KeyError"
    /\ Len(df_issues.rows) = 1
    /\ isnull(OwnEpicName(Cell(df_issues, 1, "id")))
    /\ isnull(ParentId(Cell(df_issues, 1, "id")))
    /\ ~HasColumn(df_issues_enhanced, "parent_id")

\* cases (1) and (2) in one table: an epic that keeps its own name and a
\* child without own name that takes it
C7_InheritedReached ==
    /\ cell_pc = "merged"
    /\ \E r \in EnhancedRows :
         /\ OwnEpicName(Enhanced(r, "issue_id")) = "Feature X"
         /\ Enhanced(r, "epic_name") = "Feature X"
    /\ \E r \in EnhancedRows :
         /\ isnull(OwnEpicName(Enhanced(r, "issue_id")))
         /\ InTable(ParentId(Enhanced(r, "issue_id")))
         /\ Enhanced(r, "epic_name") = "Feature X"

\* case (1) against a parent with another name: the child keeps its own
C7_OwnNameKeptReached ==
    /\ cell_pc = "merged"
    /\ \E r \in EnhancedRows :
         /\ OwnEpicName(Enhanced(r, "issue_id")) = "Feature Y"
         /\ InTable(ParentId(Enhanced(r, "issue_id")))
         /\ OwnEpicName(ParentId(Enhanced(r, "issue_id"))) = "Feature X"
         /\ Enhanced(r, "epic_name") = "Feature Y"

\* case (3): an issue without own epic name and without parent
C7_NoEpicReached ==
    /\ cell_pc = "merged"
    /\ \E r \in EnhancedRows :
         /\ isnull(OwnEpicName(Enhanced(r, "issue_id")))
         /\ isnull(ParentId(Enhanced(r, "issue_id")))
         /\ Enhanced(r, "epic_name") = "No Epic"

\* the translation the claim lists: ten keywords, everything else white
C8_Target(x) ==
    CASE x = "purple" -> "purple"
      [] x = "dark_blue" -> "darkblue"
      [] x = "yellow" -> "orange"
      [] x = "grey" -> "grey"
      [] x = "dark_purple" -> "purple"
      [] x = "blue" -> "blue"
      [] x = "dark_orange" -> "orange"
      [] x = "dark_yellow" -> "gold"
      [] x = "blue-gray" -> "dodgerblue"
      [] x = "green" -> "green"
      [] OTHER -> "white"

C8_Targets == {"purple", "darkblue", "orange", "grey", "blue", "gold",
               "dodgerblue", "green", "white"}

\* C8: the colour replacement maps each of the ten keywords to its fixed
\* display colour and every other value, null included, to "white", in all
\* three colour columns; afterwards every value of these columns is one of
\* the display colours or "white".
C8_ColorTranslation ==
    /\ [][(cell_pc = "merged" /\ cell_pc' = "done") =>
            /\ Len(df_issues_enhanced'.rows) = Len(df_issues_enhanced.rows)
            /\ \A r \in EnhancedRows : \A i \in 1..Len(ColorColumns) :
                 Cell(df_issues_enhanced', r, ColorColumns[i])
                    = C8_Target(Enhanced(r, ColorColumns[i]))]_vars
    /\ [](cell_pc = "done" =>
            \A r \in EnhancedRows : \A i \in 1..Len(ColorColumns) :
                Enhanced(r, ColorColumns[i]) \in C8_Targets)

\* a finished table with a translated keyword (yellow -> orange) and a
\* translated null
C8_Witness ==
    /\ cell_pc = "done"
    /\ \E r \in EnhancedRows :
         /\ OwnEpicColor(Enhanced(r, "issue_id")) = "yellow"
         /\ Enhanced(r, "epic_color") = "orange"
    /\ \E r \in EnhancedRows :
         /\ isnull(OwnEpicColor(Enhanced(r, "issue_id")))
         /\ Enhanced(r, "epic_color") = "white"

\* a finished table with a translated unknown keyword
C8_UnknownKeywordReached ==
    /\ cell_pc = "done"
    /\ \E r \in EnhancedRows :
         /\ Cell(df_issues, RawRow(Enhanced(r, "issue_id")),
                 "fields.status.statusCategory.colorName") = "medium-gray"
         /\ Enhanced(r, "status_cat_color") = "white"

\* the issue of row r has no own epic colour and its parent_id matches no
\* issue of the table
NoColorNoParentMatch(r) ==
    /\ isnull(OwnEpicColor(Enhanced(r, "issue_id")))
    /\ ~InTable(ParentId(Enhanced(r, "issue_id")))

\* C9, as stated: in the enriched table an issue with no own epic colour
\* and no parent match has a null epic_color.
C9_EpicColorStaysNull ==
    cell_pc = "done" =>
        \A r \in EnhancedRows :
            NoColorNoParentMatch(r) => isnull(Enhanced(r, "epic_color"))

\* C9, amended: the backfill gives epic_color no default, so such an issue
\* has a null epic_color after the merge (while a missing epic_name has
\* become "No Epic"); the colour replacement that completes the enrichment
\* then turns the null into "white".
C9_EpicColorNullThenWhite ==
    /\ cell_pc = "merged" =>
         \A r \in EnhancedRows :
            NoColorNoParentMatch(r) =>
                /\ isnull(Enhanced(r, "epic_color"))
                /\ ~isnull(Enhanced(r, "epic_name"))
    /\ cell_pc = "done" =>
         \A r \in EnhancedRows :
            NoColorNoParentMatch(r) => Enhanced(r, "epic_color") = "white"

\* an enriched table holding such an issue
C9_Witness ==
    /\ cell_pc = "done"
    /\ \E r \in EnhancedRows :
         /\ NoColorNoParentMatch(r)
         /\ Enhanced(r, "epic_name") = "No Epic"
         /\ Enhanced(r, "epic_color") = "white"

\* C10, as stated: projecting the projected table gives the projected table.
C10_ProjectionIdempotent ==
    cell_pc = "projected" => Project(df_issues_enhanced) = df_issues_enhanced

\* C10, amended: projecting the projected table gives a table with the same
\* number of rows and no column at all (no name the renaming produces is in
\* the whitelist), which equals the projected table only when that has no
\* column; from the second application on the projector changes nothing.
C10_ReprojectionDropsAllColumns ==
    cell_pc = "projected" =>
        LET again == Project(df_issues_enhanced)
        IN  /\ again.columns = <<>>
            /\ Len(again.rows) = Len(df_issues_enhanced.rows)
            /\ \A r \in 1..Len(again.rows) : again.rows[r] = <<>>
            /\ (again = df_issues_enhanced <=> df_issues_enhanced.columns = <<>>)
            /\ Project(again) = again
            /\ \A f \in RELEVANT_FIELDS :
                 /\ f \in DOMAIN COLUMN_NAME_DICT
                 /\ COLUMN_NAME_DICT[f] \notin RELEVANT_FIELDS

\* a projected table with columns
C10_Witness ==
    /\ cell_pc = "projected"
    /\ HasColumn(df_issues_enhanced, "issue_id")
    /\ HasColumn(df_issues_enhanced, "epic_name")
    /\ Len(df_issues_enhanced.rows) = MaxIssues
    /\ Project(df_issues_enhanced).columns = <<>>

\* the flattened issue table has both source columns of the resolution
BothResolutionSources ==
    /\ HasColumn(df_issues, "fields.resolution")
    /\ HasColumn(df_issues, "fields.resolution.name")

\* the values of the column at position c, row by row
ColumnValues(t, c) == [r \in 1..Len(t.rows) |-> t.rows[r][c]]

\* C17: when the flattened issue table has both the column fields.resolution
\* and the column fields.resolution.name, the projected table has a single
\* column named resolution, and it holds the values of the column
\* fields.resolution.name.
C17_SingleResolutionColumn ==
    (cell_pc = "projected" /\ BothResolutionSources) =>
        /\ Len(Positions(df_issues_enhanced, "resolution")) = 1
        /\ ColumnValues(df_issues_enhanced,
                        Positions(df_issues_enhanced, "resolution")[1])
             = ColumnValues(df_issues,
                            ColIndex(df_issues, "fields.resolution.name"))

\* what the projection does: the renaming maps both columns to the label
\* resolution and merges nothing, so the projected table has two columns of
\* that label, in the order of their sources, each with its source's values;
\* with at most one source present it has as many resolution columns
C17_OneColumnPerSource ==
    cell_pc = "projected" =>
        LET sources == SelectSeq(df_issues.columns,
                LAMBDA c : c \in {"fields.resolution", "fields.resolution.name"})
            targets == Positions(df_issues_enhanced, "resolution")
        IN  /\ Len(targets) = Len(sources)
            /\ \A i \in 1..Len(sources) :
                 ColumnValues(df_issues_enhanced, targets[i])
                  = ColumnValues(df_issues, ColIndex(df_issues, sources[i]))

\* a resolved and an unresolved issue have been projected to a table with
\* two columns named resolution
C17_TwoResolutionColumnsReached ==
    /\ cell_pc = "projected"
    /\ BothResolutionSources
    /\ Len(df_issues.rows) = 2
    /\ Len(Positions(df_issues_enhanced, "resolution")) = 2


(***************************************************************************)
(* The aggregation cells (lines 721, 790, 842 and 974)                     *)
(***************************************************************************)
\* the missing value of a numeric column (float NaN); story points are
\* never negative
nan == -1

\* df.query("label != 'value'") and df.query("label == 'value'"): a null
\* differs from every value
query_ne(t, label, value) ==
    [columns |-> t.columns,
     rows |-> SelectSeq(t.rows, LAMBDA row : row[ColIndex(t, label)] # value)]

query_eq(t, label, value) ==
    [columns |-> t.columns,
     rows |-> SelectSeq(t.rows, LAMBDA row : row[ColIndex(t, label)] = value)]

\* the values of the grouping columns, in the order sort_values gives them
SortOrder == <<"2023-02-01", "2023-02-14", "Bug", "Done", "Epic", "High",
               "No Epic", "Sprint 1", "Sprint 2", "Task", "abc", "xyz">>

Rank(v) == CHOOSE i \in 1..Len(SortOrder) : SortOrder[i] = v

\* lexicographic order of two key tuples of the same length
RECURSIVE KeyLess(_, _, _)
KeyLess(a, b, i) ==
    IF i > Len(a) THEN FALSE
    ELSE IF Rank(a[i]) < Rank(b[i]) THEN TRUE
    ELSE IF Rank(a[i]) > Rank(b[i]) THEN FALSE
    ELSE KeyLess(a, b, i + 1)

\* a set of key tuples as the ascending sequence groupby(sort=True) yields
RECURSIVE SortedKeys(_)
SortedKeys(S) ==
    IF S = {} THEN <<>>
    ELSE LET least == CHOOSE a \in S : \A b \in S \ {a} : KeyLess(a, b, 1)
         IN  <<least>> \o SortedKeys(S \ {least})

\* the key tuple of a row
KeyOf(t, row, keys) == [i \in 1..Len(keys) |-> row[ColIndex(t, keys[i])]]

\* the rows groupby keeps: dropna=True leaves out a row with a null key
GroupedRows_keep_null_keys(t, keys) == 1..Len(t.rows)
GroupedRows(t, keys) ==
    {r \in 1..Len(t.rows) :
        \A i \in 1..Len(keys) : ~isnull(Cell(t, r, keys[i]))}

\* Series.sum over the rows R: nulls are skipped, nothing left gives 0
RECURSIVE agg_sum(_, _, _)
agg_sum(t, R, label) ==
    IF R = {} THEN 0
    ELSE LET r == CHOOSE x \in R : TRUE
             v == Cell(t, r, label)
         IN  (IF v = nan THEN 0 ELSE v) + agg_sum(t, R \ {r}, label)

\* Series.count over the rows R: the number of non-null values
agg_count_counts_rows(t, R, label) == Cardinality(R)
agg_count(t, R, label) == Cardinality({r \in R : Cell(t, r, label) # nan})

\* df[cols].groupby(keys)[measure].agg(storypoints='sum',
\* issue_count='count').reset_index(), the count only when withCount
groupby_agg(t, keys, measure, withCount) ==
    LET kept == GroupedRows(t, keys)
        groups == SortedKeys({KeyOf(t, t.rows[r], keys) : r \in kept})
        members(k) == {r \in kept : KeyOf(t, t.rows[r], keys) = k}
    IN  [columns |-> keys \o <<"storypoints">>
                     \o (IF withCount THEN <<"issue_count">> ELSE <<>>),
         rows |-> [g \in 1..Len(groups) |->
                     groups[g] \o <<agg_sum(t, members(groups[g]), measure)>>
                     \o (IF withCount
                         THEN <<agg_count(t, members(groups[g]), measure)>>
                         ELSE <<>>)]]

\* line 721
PerType_keeps_epics(t) ==
    groupby_agg(t, <<"issuetype", "status_cat_name", "prio">>, "storypoints", TRUE)
PerType(t) ==
    groupby_agg(query_ne(t, "issuetype", "Epic"),
                <<"issuetype", "status_cat_name", "prio">>, "storypoints", TRUE)

\* line 790
PerEpic(t) ==
    groupby_agg(query_ne(t, "issuetype", "Epic"),
                <<"issuetype", "epic_name", "status_cat_name", "prio">>,
                "storypoints", TRUE)

\* line 842
PerProject(t) ==
    groupby_agg(query_ne(t, "issuetype", "Epic"),
                <<"project_name", "issuetype", "status_cat_name">>,
                "storypoints", TRUE)

\* line 974
PerSprint(t) ==
    groupby_agg(query_eq(t, "project_name", "abc"),
                <<"project_name", "issuetype", "prio", "sprint_name",
                  "sprint_start_date", "sprint_end_date">>,
                "storypoints", FALSE)

\* the four cells, run in notebook order
IssuesPerType ==
    /\ agg_pc = "start"
    /\ df_issues_per_type' = PerType(df_issues_enhanced)
    /\ agg_pc' = "per_type"
    /\ UNCHANGED <<df_issues_in_sprints, df_issues_per_epic,
                   df_issues_per_project, df_issues_per_sprint>>
    /\ UNCHANGED <<configVars, clientVars, fetchVars, cellVars, boardVars, sixVars>>

IssuesPerEpic ==
    /\ agg_pc = "per_type"
    /\ df_issues_per_epic' = PerEpic(df_issues_enhanced)
    /\ agg_pc' = "per_epic"
    /\ UNCHANGED <<df_issues_in_sprints, df_issues_per_type,
                   df_issues_per_project, df_issues_per_sprint>>
    /\ UNCHANGED <<configVars, clientVars, fetchVars, cellVars, boardVars, sixVars>>

IssuesPerProject ==
    /\ agg_pc = "per_epic"
    /\ df_issues_per_project' = PerProject(df_issues_enhanced)
    /\ agg_pc' = "per_project"
    /\ UNCHANGED <<df_issues_in_sprints, df_issues_per_type,
                   df_issues_per_epic, df_issues_per_sprint>>
    /\ UNCHANGED <<configVars, clientVars, fetchVars, cellVars, boardVars, sixVars>>

IssuesPerSprint ==
    /\ agg_pc = "per_project"
    /\ df_issues_per_sprint' = PerSprint(df_issues_in_sprints)
    /\ agg_pc' = "per_sprint"
    /\ UNCHANGED <<df_issues_in_sprints, df_issues_per_type,
                   df_issues_per_epic, df_issues_per_project>>
    /\ UNCHANGED <<configVars, clientVars, fetchVars, cellVars, boardVars, sixVars>>


(***************************************************************************)
(* The tables the aggregation cells are run on: the columns they read, of  *)
(* one to MaxAggIssues issues.  Issue i is estimated at Points[i] story    *)
(* points or not estimated; odd issues belong to project abc; the first    *)
(* two are in a started sprint, the others in a future sprint without      *)
(* dates.                                                                  *)
(***************************************************************************)
Points == <<3, 2, 1, 5>>

AggChoices ==
    [issuetype : {"Task", "Bug", "Epic"}, prio : {"High", NaN},
     estimated : BOOLEAN]

EnhancedColumns == <<"issue_id", "project_name", "issuetype",
                     "status_cat_name", "prio", "storypoints", "epic_name">>

EnhancedRow(ch, i) ==
    <<IssueIds[i], IF i % 2 = 1 THEN "abc" ELSE "xyz", ch[i].issuetype,
      "Done", ch[i].prio, IF ch[i].estimated THEN Points[i] ELSE nan,
      "No Epic">>

InSprintsColumns == <<"issue_id", "project_name", "issuetype", "prio",
                      "storypoints", "sprint_name", "sprint_start_date",
                      "sprint_end_date">>

InSprintsRow(ch, i) ==
    <<IssueIds[i], IF i % 2 = 1 THEN "abc" ELSE "xyz", ch[i].issuetype,
      ch[i].prio, IF ch[i].estimated THEN Points[i] ELSE nan>>
    \o (IF i <= 2 THEN <<"Sprint 1", "2023-02-01", "2023-02-14">>
        ELSE <<"Sprint 2", NaN, NaN>>)

\* the enrichment cell and jira_get_board_issues have produced their tables
InitAggregate ==
    /\ Configured
    /\ IdleClient
    /\ IdleFetch
    /\ IdleBoard
    /\ IdleSix
    /\ df_issues = NoTable
    /\ df_epics = NoTable
    /\ cell_pc = "done"
    /\ cell_raised = NoException
    /\ \E n \in 1..MaxAggIssues : \E ch \in [1..n -> AggChoices] :
         /\ df_issues_enhanced =
              [columns |-> EnhancedColumns,
               rows |-> [i \in 1..n |-> EnhancedRow(ch, i)]]
         /\ df_issues_in_sprints =
              [columns |-> InSprintsColumns,
               rows |-> [i \in 1..n |-> InSprintsRow(ch, i)]]
    /\ df_issues_per_type = NoTable
    /\ df_issues_per_epic = NoTable
    /\ df_issues_per_project = NoTable
    /\ df_issues_per_sprint = NoTable
    /\ agg_pc = "start"

NextAggregate ==
    \/ IssuesPerType
    \/ IssuesPerEpic
    \/ IssuesPerProject
    \/ IssuesPerSprint

SpecAggregate == InitAggregate /\ [][NextAggregate]_vars

(***************************************************************************)
(* Properties of the aggregation cells (specification SpecAggregate)       *)
(***************************************************************************)
PerTypeKeys == <<"issuetype", "status_cat_name", "prio">>
PerEpicKeys == <<"issuetype", "epic_name", "status_cat_name", "prio">>
PerProjectKeys == <<"project_name", "issuetype", "status_cat_name">>
PerSprintKeys == <<"project_name", "issuetype", "prio", "sprint_name",
                   "sprint_start_date", "sprint_end_date">>

\* the issues of table t that are not Epics and have a value in every
\* grouping column
NonEpicIssues(t, keys) ==
    {r \in 1..Len(t.rows) :
        /\ Cell(t, r, "issuetype") # "Epic"
        /\ \A i \in 1..Len(keys) : Cell(t, r, keys[i]) # NaN}

\* of these, the ones with the combination k
IssuesOfGroup(t, keys, k) ==
    {r \in NonEpicIssues(t, keys) :
        \A i \in 1..Len(keys) : Cell(t, r, keys[i]) = k[i]}

\* the story points of a set of issues, null counting zero
RECURSIVE StoryPoints(_, _)
StoryPoints(t, R) ==
    IF R = {} THEN 0
    ELSE LET r == CHOOSE x \in R : TRUE
         IN  (IF Cell(t, r, "storypoints") = nan THEN 0
              ELSE Cell(t, r, "storypoints")) + StoryPoints(t, R \ {r})

\* out has one row per combination of the non-Epic issues of t, carrying
\* their story-point sum
OneRowPerGroupWithSum(t, out, keys) ==
    LET combos == {KeyOf(t, t.rows[r], keys) : r \in NonEpicIssues(t, keys)}
    IN  /\ Len(out.rows) = Cardinality(combos)
        /\ \A g \in 1..Len(out.rows) :
             /\ KeyOf(out, out.rows[g], keys) \in combos
             /\ Cell(out, g, "storypoints") =
                  StoryPoints(t, IssuesOfGroup(t, keys, KeyOf(out, out.rows[g], keys)))
        /\ \A g, h \in 1..Len(out.rows) :
             KeyOf(out, out.rows[g], keys) = KeyOf(out, out.rows[h], keys) => g = h

\* the issue_count of every row of out is the number of non-Epic issues of
\* its group
CountsIssues(t, out, keys) ==
    \A g \in 1..Len(out.rows) :
        Cell(out, g, "issue_count") =
            Cardinality(IssuesOfGroup(t, keys, KeyOf(out, out.rows[g], keys)))

AggDone(stages) == agg_pc \in stages

\* C11: each of the aggregations of lines 721, 842 and 974 has exactly one
\* row per combination of grouping values occurring among the non-Epic
\* issues; the row's story-point sum is the sum over exactly these issues
\* and its issue count is their number; no Epic contributes to any row.
C11_OneRowPerGroupOfNonEpics ==
    /\ AggDone({"per_type", "per_epic", "per_project", "per_sprint"}) =>
         /\ OneRowPerGroupWithSum(df_issues_enhanced, df_issues_per_type, PerTypeKeys)
         /\ CountsIssues(df_issues_enhanced, df_issues_per_type, PerTypeKeys)
    /\ AggDone({"per_project", "per_sprint"}) =>
         /\ OneRowPerGroupWithSum(df_issues_enhanced, df_issues_per_project, PerProjectKeys)
         /\ CountsIssues(df_issues_enhanced, df_issues_per_project, PerProjectKeys)
    /\ AggDone({"per_sprint"}) =>
         OneRowPerGroupWithSum(query_eq(df_issues_in_sprints, "project_name", "abc"),
                               df_issues_per_sprint, PerSprintKeys)

\* what does hold of lines 721, 790 and 842: the rows and their sums
C11_GroupsAndSumsOfIssueTable ==
    /\ AggDone({"per_type", "per_epic", "per_project", "per_sprint"}) =>
         OneRowPerGroupWithSum(df_issues_enhanced, df_issues_per_type, PerTypeKeys)
    /\ AggDone({"per_epic", "per_project", "per_sprint"}) =>
         OneRowPerGroupWithSum(df_issues_enhanced, df_issues_per_epic, PerEpicKeys)
    /\ AggDone({"per_project", "per_sprint"}) =>
         OneRowPerGroupWithSum(df_issues_enhanced, df_issues_per_project, PerProjectKeys)

\* the example: (Task,3), (Task,2), (Bug,1), all Done, gives (Bug: 1, 1) and
\* (Task: 5, 2)
C11_ExampleReached ==
    /\ agg_pc = "per_type"
    /\ df_issues_per_type.rows = << <<"Bug", "Done", "High", 1, 1>>,
                                    <<"Task", "Done", "High", 5, 2>> >>

\* an Epic of project abc has a row of its own in the sprint aggregation
C11_EpicInSprintAggregation ==
    /\ agg_pc = "per_sprint"
    /\ \E g \in 1..Len(df_issues_per_sprint.rows) :
         Cell(df_issues_per_sprint, g, "issuetype") = "Epic"

\* C12: in the aggregations that report an issue count (lines 721 and 790)
\* an issue with null story points adds zero to its group's sum and one to
\* its group's issue_count: issue_count is the number of issues of the group.
C12_NullPointsStillCounted ==
    /\ AggDone({"per_type", "per_epic", "per_project", "per_sprint"}) =>
         \A g \in 1..Len(df_issues_per_type.rows) :
            LET members == IssuesOfGroup(df_issues_enhanced, PerTypeKeys,
                              KeyOf(df_issues_per_type,
                                    df_issues_per_type.rows[g], PerTypeKeys))
            IN  /\ Cell(df_issues_per_type, g, "storypoints") =
                     StoryPoints(df_issues_enhanced, members)
                /\ Cell(df_issues_per_type, g, "issue_count") = Cardinality(members)
    /\ AggDone({"per_epic", "per_project", "per_sprint"}) =>
         \A g \in 1..Len(df_issues_per_epic.rows) :
            LET members == IssuesOfGroup(df_issues_enhanced, PerEpicKeys,
                              KeyOf(df_issues_per_epic,
                                    df_issues_per_epic.rows[g], PerEpicKeys))
            IN  /\ Cell(df_issues_per_epic, g, "storypoints") =
                     StoryPoints(df_issues_enhanced, members)
                /\ Cell(df_issues_per_epic, g, "issue_count") = Cardinality(members)

\* a group of one unestimated issue is reported with issue_count 0
C12_UnestimatedIssueNotCounted ==
    /\ agg_pc = "per_type"
    /\ Len(df_issues_enhanced.rows) = 1
    /\ Cell(df_issues_enhanced, 1, "storypoints") = nan
    /\ df_issues_per_type.rows = << <<"Task", "Done", "High", 0, 0>> >>

\* issue_count is the number of issues of the group with story points
C12_CountsEstimatedIssues ==
    AggDone({"per_type", "per_epic", "per_project", "per_sprint"}) =>
        \A g \in 1..Len(df_issues_per_type.rows) :
            Cell(df_issues_per_type, g, "issue_count") =
                Cardinality({r \in IssuesOfGroup(df_issues_enhanced, PerTypeKeys,
                                    KeyOf(df_issues_per_type,
                                          df_issues_per_type.rows[g], PerTypeKeys)) :
                                Cell(df_issues_enhanced, r, "storypoints") # nan})


(***************************************************************************)
(* jira_get_board_issues (lines 554-575)                                   *)
(***************************************************************************)
\* the sprints of the board as the service lists them: the first is closed,
\* the others have not started and carry no dates
SprintId(j) == 30 + j

SprintObject(j) ==
    << <<"id", SprintId(j)>>,
       <<"self", "https://example.atlassian.net/rest/agile/1.0/sprint">>,
       <<"state", IF j = 1 THEN "closed" ELSE "future">>,
       <<"name", IF j = 1 THEN "Sprint 1" ELSE "Sprint 2">> >>
    \o (IF j = 1 THEN << <<"startDate", "2023-02-01">>,
                         <<"endDate", "2023-02-14">>,
                         <<"completeDate", "2023-02-14">> >>
        ELSE <<>>)
    \o << <<"originBoardId", 7>>, <<"goal", "">> >>

\* the k-th issue of sprint j
SprintIssueObject(j, k) ==
    << <<"id", 100 * j + k>>,
       <<"key", "ABC">>,
       <<"fields.project.name", "abc">>,
       <<"fields.project.id", "10000">>,
       <<"fields.issuetype.name", "Task">>,
       <<"fields.status.name", "Done">>,
       <<"fields.status.statusCategory.name", "Done">>,
       <<"fields.priority.name", "High">>,
       <<"fields.customfield_10026", k>> >>

\* the records startAt = o, maxResults = m selects from objs
PageOf(objs, o, m) ==
    IF o >= Len(objs) THEN <<>>
    ELSE SubSeq(objs, o + 1, Min(o + m, Len(objs)))

\* the ways a request for a page of objs can end
PageExchanges(key, objs, o, m) ==
    {StatusExchange(200, Body(key, PageOf(objs, o, m)))}
    \cup {StatusExchange(st, EmptyBody) : st \in ErrorStatuses}
    \cup {TransportFailure(e) : e \in TransportErrors}

BoardSprints == [j \in 1..sprint_count |-> SprintObject(j)]

\* the index of the sprint with the given id
SprintOfId(id) == id - 30

IssuesOfSprint(id) ==
    [k \in 1..issue_counts[SprintOfId(id)] |-> SprintIssueObject(SprintOfId(id), k)]

\* the columns line 566 selects and the names line 571 gives them
SprintIssueColumns == <<"id", "key", "fields.project.name", "fields.project.id",
                        "fields.issuetype.name", "fields.status.name",
                        "fields.status.statusCategory.name",
                        "fields.priority.name", "fields.customfield_10026">>

BoardIssueColumns == <<"issue_id", "issue_key", "project_name", "project_id",
                       "issuetype", "status", "status_cat_name", "prio",
                       "storypoints", "sprint_id">>

\* lines 572-574: the merge with the sprint table, the drop and the rename
AttachSprints_inner(issues, sprints) ==
    LET m == merge_left(issues, sprints, "sprint_id", "id")
        kept == SelectSeq(m.rows, LAMBDA row :
                    \E q \in 1..Len(sprints.rows) :
                        Cell(sprints, q, "id") = row[ColIndex(m, "sprint_id")])
    IN  rename(drop([columns |-> m.columns, rows |-> kept], <<"id", "self", "goal">>),
               ("name" :> "sprint_name") @@ ("state" :> "sprint_state")
               @@ ("startDate" :> "sprint_start_date")
               @@ ("endDate" :> "sprint_end_date")
               @@ ("completeDate" :> "sprint_complete_date")
               @@ ("originBoardId" :> "board_id"))
AttachSprints(issues, sprints) ==
    rename(drop(merge_left(issues, sprints, "sprint_id", "id"),
                <<"id", "self", "goal">>),
           ("name" :> "sprint_name") @@ ("state" :> "sprint_state")
           @@ ("startDate" :> "sprint_start_date")
           @@ ("endDate" :> "sprint_end_date")
           @@ ("completeDate" :> "sprint_complete_date")
           @@ ("originBoardId" :> "board_id"))


\* the frame of a fetch function at its `while`
EnterFetch(name, n) ==
    /\ fetcher' = name
    /\ extra' = ""
    /\ total' = n
    /\ serverCap' = block_size
    /\ all_records' = <<>>
    /\ start_position' = 0
    /\ has_next' = TRUE
    /\ response' = NoResponse
    /\ requests' = <<>>
    /\ pc' = "loop"
    /\ raised' = NoException
    /\ result' = NoTable

\* the fetch function has left its loop and returns its table
FetchReturns == (pc = "loop" /\ ~has_next) \/ pc = "break"

\* the exception of the callee leaves jira_get_board_issues too
BoardRaises(exc) ==
    /\ board_pc' = "raised"
    /\ board_raised' = exc

\* line 562, one request of jira_get_sprints(board_id)
BoardSprintsRequest ==
    /\ board_pc = "sprints"
    /\ LoopBody(PageExchanges("values", BoardSprints, start_position, block_size),
                "values", "", TRUE, TRUE)
    /\ board_log' = IF requests' = requests THEN board_log
                    ELSE Append(board_log, [fetch |-> "sprints", sprint |-> 0,
                                            startAt |-> start_position,
                                            ok |-> response'.tag = "response"])
    /\ IF pc' = "raised" THEN BoardRaises(raised')
       ELSE UNCHANGED <<board_pc, board_raised>>
    /\ UNCHANGED <<fetcher, extra, total, serverCap, result>>
    /\ UNCHANGED <<sprint_count, issue_counts, df_all_sprints, sprint_ids,
                   sprint_index, issue_rows, df_board_issues_enhanced>>
    /\ UNCHANGED <<configVars, clientVars, cellVars, aggVars, sixVars>>

\* lines 562-565: jira_get_sprints returns, the ids are read and the for
\* loop calls jira_get_sprint_issues for the first of them; reading the
\* attribute id of a table without such a column raises AttributeError
BoardSprintsReturn ==
    /\ board_pc = "sprints"
    /\ FetchReturns
    /\ LET df == json_normalize(all_records)
       IN  /\ df_all_sprints' = df
           /\ IF ~HasColumn(df, "id")
              THEN /\ BoardRaises("AttributeError")
                   /\ result' = df
                   /\ pc' = "returned"
                   /\ UNCHANGED <<sprint_ids, sprint_index, fetcher, extra,
                                  total, serverCap, all_records, start_position,
                                  has_next, response, requests, raised>>
              ELSE /\ sprint_ids' = [r \in 1..Len(df.rows) |-> Cell(df, r, "id")]
                   /\ sprint_index' = 1
                   /\ board_pc' = "issues"
                   /\ EnterFetch("jira_get_sprint_issues",
                                 issue_counts[SprintOfId(Cell(df, 1, "id"))])
                   /\ UNCHANGED board_raised
    /\ UNCHANGED <<sprint_count, issue_counts, issue_rows, board_log,
                   df_board_issues_enhanced>>
    /\ UNCHANGED <<configVars, clientVars, cellVars, aggVars, sixVars>>

\* line 566, one request of jira_get_sprint_issues(sprint_id)
BoardIssuesRequest ==
    /\ board_pc = "issues"
    /\ LoopBody(PageExchanges("issues", IssuesOfSprint(sprint_ids[sprint_index]),
                              start_position, block_size),
                "issues", "", TRUE, TRUE)
    /\ board_log' = IF requests' = requests THEN board_log
                    ELSE Append(board_log, [fetch |-> "issues",
                                            sprint |-> sprint_ids[sprint_index],
                                            startAt |-> start_position,
                                            ok |-> response'.tag = "response"])
    /\ IF pc' = "raised" THEN BoardRaises(raised')
       ELSE UNCHANGED <<board_pc, board_raised>>
    /\ UNCHANGED <<fetcher, extra, total, serverCap, result>>
    /\ UNCHANGED <<sprint_count, issue_counts, df_all_sprints, sprint_ids,
                   sprint_index, issue_rows, df_board_issues_enhanced>>
    /\ UNCHANGED <<configVars, clientVars, cellVars, aggVars, sixVars>>

\* lines 566-569: jira_get_sprint_issues returns, the nine columns are
\* selected (KeyError when the table lacks one), tagged with the sprint id
\* and added to issue_rows; the for loop goes on to the next sprint
BoardIssuesReturn ==
    /\ board_pc = "issues"
    /\ FetchReturns
    /\ LET df == json_normalize(all_records)
           tagged == [r \in 1..Len(df.rows) |->
                        GetItem(df, SprintIssueColumns).rows[r]
                        \o <<sprint_ids[sprint_index]>>]
       IN  IF MissingLabel(df, SprintIssueColumns)
           THEN /\ BoardRaises("KeyError")
                /\ result' = df
                /\ pc' = "returned"
                /\ UNCHANGED <<issue_rows, sprint_index, fetcher, extra, total,
                               serverCap, all_records, start_position, has_next,
                               response, requests, raised>>
           ELSE /\ issue_rows' = issue_rows \o tagged
                /\ UNCHANGED board_raised
                /\ IF sprint_index < Len(sprint_ids)
                   THEN /\ sprint_index' = sprint_index + 1
                        /\ board_pc' = "issues"
                        /\ EnterFetch("jira_get_sprint_issues",
                               issue_counts[SprintOfId(sprint_ids[sprint_index + 1])])
                   ELSE /\ board_pc' = "assemble"
                        /\ result' = df
                        /\ pc' = "returned"
                        /\ UNCHANGED <<sprint_index, fetcher, extra, total,
                                       serverCap, all_records, start_position,
                                       has_next, response, requests, raised>>
    /\ UNCHANGED <<sprint_count, issue_counts, df_all_sprints, sprint_ids,
                   board_log, df_board_issues_enhanced>>
    /\ UNCHANGED <<configVars, clientVars, cellVars, aggVars, sixVars>>

\* lines 570-575: the rows become a table (ValueError when there is none to
\* name ten columns of), the sprint table is merged in, three of its
\* columns are dropped (KeyError when one is missing) and the table returned
BoardAssemble ==
    /\ board_pc = "assemble"
    /\ IF issue_rows = <<>>
       THEN /\ BoardRaises("ValueError")
            /\ UNCHANGED df_board_issues_enhanced
       ELSE IF MissingLabel(df_all_sprints, <<"id", "self", "goal">>)
       THEN /\ BoardRaises("KeyError")
            /\ UNCHANGED df_board_issues_enhanced
       ELSE /\ df_board_issues_enhanced' =
                 AttachSprints([columns |-> BoardIssueColumns, rows |-> issue_rows],
                               df_all_sprints)
            /\ board_pc' = "returned"
            /\ UNCHANGED board_raised
    /\ UNCHANGED <<sprint_count, issue_counts, df_all_sprints, sprint_ids,
                   sprint_index, issue_rows, board_log>>
    /\ UNCHANGED <<configVars, clientVars, fetchVars, cellVars, aggVars, sixVars>>

\* jira_get_board_issues(board_id) has been called and calls jira_get_sprints
InitBoard ==
    /\ Configured
    /\ IdleClient
    /\ IdleCell
    /\ IdleAgg
    /\ IdleSix
    /\ sprint_count \in 0..MaxSprints
    /\ issue_counts \in [1..sprint_count -> 0..MaxSprintIssues]
    /\ df_all_sprints = NoTable
    /\ sprint_ids = <<>>
    /\ sprint_index = 0
    /\ issue_rows = <<>>
    /\ board_log = <<>>
    /\ board_pc = "sprints"
    /\ board_raised = NoException
    /\ df_board_issues_enhanced = NoTable
    /\ fetcher = "jira_get_sprints"
    /\ extra = ""
    /\ total = sprint_count
    /\ serverCap = block_size
    /\ all_records = <<>>
    /\ start_position = 0
    /\ has_next = TRUE
    /\ response = NoResponse
    /\ requests = <<>>
    /\ pc = "loop"
    /\ raised = NoException
    /\ result = NoTable

NextBoard ==
    \/ BoardSprintsRequest
    \/ BoardSprintsReturn
    \/ BoardIssuesRequest
    \/ BoardIssuesReturn
    \/ BoardAssemble

SpecBoard == InitBoard /\ [][NextBoard]_vars


(***************************************************************************)
(* Lines 570-575 on their own: the join applied to any issue rows and any  *)
(* non-empty sprint table with unique ids, whether or not the rows' sprint *)
(* ids are in it.                                                          *)
(***************************************************************************)
\* the sprint tables: one or both sprints, in either order
SprintLists == {<<1>>, <<2>>, <<1, 2>>, <<2, 1>>}

\* the sprint ids a row can be tagged with; the last is no sprint of the board
JoinTags == {SprintId(1), SprintId(2), SprintId(3)}

\* row k of the concatenated table, tagged
TaggedRow(k, tag) ==
    [c \in 1..Len(SprintIssueColumns) |-> SprintIssueObject(1, k)[c][2]] \o <<tag>>

InitJoin ==
    /\ Configured
    /\ IdleClient
    /\ IdleFetch
    /\ IdleCell
    /\ IdleAgg
    /\ IdleSix
    /\ sprint_count = 0
    /\ issue_counts = <<>>
    /\ \E sl \in SprintLists :
         /\ df_all_sprints = json_normalize([i \in 1..Len(sl) |-> SprintObject(sl[i])])
         /\ sprint_ids = [i \in 1..Len(sl) |-> SprintId(sl[i])]
    /\ sprint_index = Len(sprint_ids)
    /\ \E n \in 1..MaxJoinRows : \E tags \in [1..n -> JoinTags] :
         issue_rows = [k \in 1..n |-> TaggedRow(k, tags[k])]
    /\ board_log = <<>>
    /\ board_pc = "assemble"
    /\ board_raised = NoException
    /\ df_board_issues_enhanced = NoTable

NextJoin == BoardAssemble

SpecJoin == InitJoin /\ [][NextJoin]_vars

(***************************************************************************)
(* Properties of the sprint join (specification SpecJoin)                  *)
(***************************************************************************)
SprintAttributes == <<"sprint_name", "sprint_state", "sprint_start_date",
                      "sprint_end_date", "sprint_complete_date", "board_id">>

\* the sprint id of the row is the id of no row of the sprint table
NoSprintEntry(row) ==
    \A q \in 1..Len(df_all_sprints.rows) :
        Cell(df_all_sprints, q, "id") # row[Len(BoardIssueColumns)]

\* C13: the join keeps every row of the concatenated sprint-issue table, in
\* order and once (the sprint ids of the sprint table being unique, the
\* output has as many rows as the concatenated table); a row whose sprint
\* id has no entry in the sprint table has null sprint name, state, start,
\* end and complete date and board id, any other row the name and board id
\* of its sprint.
C13_LeftJoinKeepsEveryRow ==
    board_pc = "returned" =>
        LET out == df_board_issues_enhanced
        IN  /\ Len(out.rows) = Len(issue_rows)
            /\ HasColumn(out, "sprint_name")
            /\ HasColumn(out, "sprint_state")
            /\ HasColumn(out, "board_id")
            /\ \A r \in 1..Len(out.rows) :
                 /\ \A c \in 1..Len(BoardIssueColumns) :
                      Cell(out, r, BoardIssueColumns[c]) = issue_rows[r][c]
                 /\ NoSprintEntry(issue_rows[r]) =>
                      \A a \in 1..Len(SprintAttributes) :
                          HasColumn(out, SprintAttributes[a]) =>
                              Cell(out, r, SprintAttributes[a]) = NaN
                 /\ ~NoSprintEntry(issue_rows[r]) =>
                      \E q \in 1..Len(df_all_sprints.rows) :
                          /\ Cell(df_all_sprints, q, "id") = Cell(out, r, "sprint_id")
                          /\ Cell(df_all_sprints, q, "name") = Cell(out, r, "sprint_name")
                          /\ Cell(df_all_sprints, q, "originBoardId") = Cell(out, r, "board_id")

\* a joined table with a row of a listed sprint and a row of an unlisted one
C13_Witness ==
    /\ board_pc = "returned"
    /\ \E r \in 1..Len(df_board_issues_enhanced.rows) :
         /\ NoSprintEntry(issue_rows[r])
         /\ Cell(df_board_issues_enhanced, r, "sprint_name") = NaN
    /\ \E r \in 1..Len(df_board_issues_enhanced.rows) :
         /\ ~NoSprintEntry(issue_rows[r])
         /\ Cell(df_board_issues_enhanced, r, "sprint_name") = "Sprint 1"


(***************************************************************************)
(* The six fetch functions side by side: each request of each function is  *)
(* answered with the same outcome, the page at its offset or an error.     *)
(***************************************************************************)
\* what the six functions differ in: the array read from the response,
\* whether the response is tested for HTTPError, whether json is imported
FetcherKey(f) ==
    CASE f = "jira_get_issues" -> "issues"
      [] f = "jira_get_all_projects" -> "values"
      [] f = "jira_get_boards" -> "values"
      [] f = "jira_get_sprints" -> "values"
      [] f = "jira_get_backlog_issues" -> "issues"
      [] f = "jira_get_sprint_issues" -> "issues"

FetcherGuarded(f) ==
    f \in {"jira_get_sprints", "jira_get_backlog_issues", "jira_get_sprint_issues"}

FetcherImportsJson(f) == f # "jira_get_backlog_issues"

\* the outcomes a request can have: the page at its offset, an error
\* status, no response
PageOutcome == [kind |-> "page", status |-> 200, error |-> "none"]
StatusOutcome(st) == [kind |-> "status", status |-> st, error |-> "none"]
TransportOutcome(e) == [kind |-> "transport", status |-> 0, error |-> e]

SixOutcomes ==
    {PageOutcome} \cup {StatusOutcome(st) : st \in ErrorStatuses}
    \cup {TransportOutcome(e) : e \in TransportErrors}

\* the exchange function f sees when its request at offset o has outcome oc
SixExchange(f, oc, o) ==
    IF oc.kind = "page"
    THEN StatusExchange(200, Body(FetcherKey(f),
                                  ServerPage(six_total, block_size, o, block_size)))
    ELSE IF oc.kind = "transport" THEN TransportFailure(oc.error)
    ELSE StatusExchange(oc.status, EmptyBody)

\* the locals of a fetch function at its `while`
FetchStart ==
    [all_records |-> <<>>, start_position |-> 0, has_next |-> TRUE,
     offsets |-> <<>>, pc |-> "loop", raised |-> NoException]

\* one pass through the loop of function f, then the return when the loop
\* is left
Iterate(f, st, oc) ==
    LET resp == jira_auth_get_connect(user, apikey, server,
                                      SixExchange(f, oc, st.start_position))
        outcome == Handle(resp, FetcherKey(f), FetcherGuarded(f),
                          FetcherImportsJson(f))
        block == resp.text.items
        sent == [st EXCEPT !.offsets = Append(@, st.start_position)]
    IN  IF outcome = "extend"
        THEN [sent EXCEPT !.all_records = @ \o block,
                          !.has_next = NextHasNext(block, @),
                          !.start_position = NextStart(@, block),
                          !.pc = IF NextHasNext(block, st.has_next)
                                 THEN "loop" ELSE "returned"]
        ELSE IF outcome = "break" THEN [sent EXCEPT !.pc = "returned"]
        ELSE [sent EXCEPT !.pc = "raised", !.raised = outcome]

\* the next request of every function still in its loop gets the outcome oc
SixStep ==
    /\ six_pc = "running"
    /\ \E f \in Fetchers : six[f].pc = "loop"
    /\ \E oc \in SixOutcomes :
         /\ six' = [f \in Fetchers |->
                      IF six[f].pc = "loop" THEN Iterate(f, six[f], oc) ELSE six[f]]
         /\ six_outcomes' = Append(six_outcomes, oc)
    /\ UNCHANGED <<six_total, six_pc>>
    /\ UNCHANGED <<configVars, clientVars, fetchVars, cellVars, aggVars, boardVars>>

InitSix ==
    /\ Configured
    /\ IdleClient
    /\ IdleFetch
    /\ IdleCell
    /\ IdleAgg
    /\ IdleBoard
    /\ six_total \in 0..MaxRecords
    /\ six = [f \in Fetchers |-> FetchStart]
    /\ six_outcomes = <<>>
    /\ six_pc = "running"

NextSix == SixStep

SpecSix == InitSix /\ [][NextSix]_vars

(***************************************************************************)
(* Properties of the six functions side by side (specification SpecSix)    *)
(***************************************************************************)
\* C14: driven by the same outcomes, the six fetch functions issue the same
\* sequence of startAt offsets, end at the same request and in the same
\* way, and hold (and return) the same accumulated records.
C14_SixLoopsBehaveAlike ==
    \A f, g \in Fetchers :
        /\ six[f].offsets = six[g].offsets
        /\ six[f].pc = six[g].pc
        /\ six[f].raised = six[g].raised
        /\ Len(six[f].all_records) = Len(six[g].all_records)

\* the five functions that import json behave alike as long as every
\* request is answered with a page
C14_AlikeOnPages ==
    (\A i \in 1..Len(six_outcomes) : six_outcomes[i] = PageOutcome) =>
        \A f, g \in Fetchers \ {"jira_get_backlog_issues"} :
            /\ six[f].offsets = six[g].offsets
            /\ six[f].pc = six[g].pc
            /\ six[f].all_records = six[g].all_records

\* answered with an HTTP error status, three functions raise and three
\* return
C14_SplitOnHttpError ==
    /\ six_outcomes = <<StatusOutcome(401)>>
    /\ six["jira_get_issues"].raised = "AttributeError"
    /\ six["jira_get_all_projects"].raised = "AttributeError"
    /\ six["jira_get_boards"].raised = "AttributeError"
    /\ six["jira_get_sprints"].pc = "returned"
    /\ six["jira_get_backlog_issues"].pc = "returned"
    /\ six["jira_get_sprint_issues"].pc = "returned"

\* answered with a page, jira_get_backlog_issues raises NameError
C14_BacklogRaisesOnPage ==
    /\ six_outcomes = <<PageOutcome>>
    /\ six["jira_get_backlog_issues"].raised = "NameError"
    /\ six["jira_get_sprints"].raised = NoException


(***************************************************************************)
(* Further properties of the paginated fetch (specification Spec)          *)
(***************************************************************************)
\* the name the extra parameter of the running function is sent under
ExtraNameOf(f) ==
    CASE f = "jira_get_issues" -> "jql"
      [] f = "jira_get_boards" -> "projectKeyOrId"
      [] OTHER -> ""

\* C15: the i-th request of a fetch (i = 0, 1, ...) carries startAt = i*100
\* and maxResults = 100, with the extra parameter (jql / projectKeyOrId)
\* unchanged when one was given and without it otherwise; the offsets
\* strictly increase, so none is requested twice; and once a request has
\* yielded an error value the fetch sends no further request.
C15_OffsetsAdvanceByPageSize ==
    /\ [](\A i \in 1..Len(requests) :
            /\ requests[i].startAt = (i - 1) * 100
            /\ requests[i].maxResults = 100
            /\ requests[i].extraValue = extra
            /\ requests[i].extraName = IF extra = "" THEN "" ELSE ExtraNameOf(fetcher)
            /\ \A j \in 1..(i - 1) : requests[j].startAt < requests[i].startAt)
    /\ [][response.tag = "error" => requests' = requests]_vars

\* the third request of jira_get_issues('project=abc'), at offset 200, has
\* yielded an error value after two pages
C15_Witness ==
    /\ fetcher = "jira_get_issues"
    /\ extra = "project=abc"
    /\ Len(requests) = 3
    /\ requests[3].startAt = 200
    /\ requests[3].extraName = "jql"
    /\ response.tag = "error"
    /\ Len(all_records) > 100

\* the fetch has returned and every one of its requests was answered with
\* a page (an error value is the last response of its fetch)
ReturnedOnPages ==
    /\ pc = "returned"
    /\ response.tag = "response"

\* the records of the collection, in server order
Collection == [i \in 1..total |-> ServerRecord(i)]

\* C18: a paginated fetch returns every record of the collection exactly
\* once and in server order, also when the server answers a request for 100
\* records with fewer although more remain (a page cap of 50): none is
\* skipped and none comes twice.
C18_EveryRecordExactlyOnce ==
    ReturnedOnPages => all_records = Collection

\* what holds: the records a completed fetch holds are those of the pages
\* at the offsets 0, 100, 200, .., each cut to the server's cap, in server
\* order and none twice; they are the whole collection when the server
\* serves full pages
C18_RecordsOfRequestedOffsets ==
    ReturnedOnPages =>
        /\ all_records =
             SelectSeq(Collection,
                 LAMBDA rec : (Lookup(rec, "id") - 1) % block_size
                               < Min(serverCap, block_size))
        /\ (serverCap >= block_size => all_records = Collection)

\* 100 issues behind a server that caps pages at 50: the fetch has returned
\* the first 50 after the requests at offsets 0 and 100
C18_SkippedReached ==
    /\ ReturnedOnPages
    /\ fetcher = "jira_get_issues"
    /\ serverCap = 50
    /\ total = 100
    /\ Len(requests) = 2
    /\ Len(all_records) = 50

(***************************************************************************)
(* Depth of the epic backfill (specification SpecEnhance)                  *)
(***************************************************************************)
\* the epic name one level of backfill gives an issue: its own, else its
\* parent's own when the parent is an issue of the table, else "No Epic"
OneLevelName(id) ==
    IF ~isnull(OwnEpicName(id)) THEN OwnEpicName(id)
    ELSE IF InTable(ParentId(id)) /\ ~isnull(OwnEpicName(ParentId(id)))
         THEN OwnEpicName(ParentId(id))
         ELSE "No Epic"

\* the rows of a table in reverse order: every two rows change places
Reversed(t) ==
    [t EXCEPT !.rows = [r \in 1..Len(t.rows) |-> t.rows[Len(t.rows) + 1 - r]]]

\* the pairs of issue id and epic name of a table
NamePairs(t) ==
    {<<Cell(t, r, "issue_id"), Cell(t, r, "epic_name")>> : r \in 1..Len(t.rows)}

\* C20: the epic backfill is exactly one level deep and reads the parent's
\* own values, not its backfilled ones: an issue without own epic name whose
\* parent is in the table and has no own epic name gets "No Epic", also
\* when the parent of that parent is an epic with a name; every epic name
\* is the one a single level gives, a function of the issue's and its
\* parent's own values only, whatever the ancestry beyond the parent and
\* whatever the order of the rows: the table with its rows reversed gives
\* every issue the same name.
C20_BackfillOneLevelDeep ==
    cell_pc = "merged" =>
        /\ \A r \in EnhancedRows :
             LET id == Enhanced(r, "issue_id")
             IN  /\ (isnull(OwnEpicName(id)) /\ InTable(ParentId(id))
                      /\ isnull(OwnEpicName(ParentId(id))))
                        => Enhanced(r, "epic_name") = "No Epic"
                 /\ Enhanced(r, "epic_name") = OneLevelName(id)
        /\ LET t == Reversed(Project(df_issues))
           IN  NamePairs(AddEpics(t, GetItem(t, EpicColumns)))
                = NamePairs(df_issues_enhanced)

\* three generations in one table: an epic with a name, its child without
\* own name, which took the epic's name, and the child of that child
\* without own name, which got "No Epic"
C20_Witness ==
    /\ cell_pc = "merged"
    /\ Len(df_issues.rows) = MaxChain
    /\ \E r, q \in EnhancedRows :
         LET id == Enhanced(r, "issue_id")
             par == ParentId(id)
         IN  /\ isnull(OwnEpicName(id))
             /\ InTable(par)
             /\ isnull(OwnEpicName(par))
             /\ InTable(ParentId(par))
             /\ ~isnull(OwnEpicName(ParentId(par)))
             /\ Enhanced(q, "issue_id") = par
             /\ Enhanced(q, "epic_name") = OwnEpicName(ParentId(par))
             /\ Enhanced(r, "epic_name") = "No Epic"



(***************************************************************************)
(* Properties of jira_get_board_issues (specification SpecBoard)           *)
(***************************************************************************)
\* the position of a sprint id in sprint_ids
PosOf(id) == CHOOSE i \in 1..Len(sprint_ids) : sprint_ids[i] = id

\* the requests of the sprint-issue fetch of a sprint, by position in the log
FetchesOf(id) ==
    {i \in 1..Len(board_log) :
        board_log[i].fetch = "issues" /\ board_log[i].sprint = id}

\* the order of the requests sent so far: the sprint-list requests come
\* first; the sprint-issue requests follow sprint by sprint in sprint-list
\* order, those of one sprint forming one fetch (offsets 0, 100, ...); no
\* sprint-issue request is sent before df_all_sprints is assigned; each
\* issue row carries the id of the sprint whose fetch produced it
RequestsInOrder ==
    /\ \A i, j \in 1..Len(board_log) :
         i < j =>
            /\ board_log[i].fetch = "issues" => board_log[j].fetch = "issues"
            /\ (board_log[i].fetch = "issues" /\ board_log[j].fetch = "issues") =>
                 \/ PosOf(board_log[i].sprint) < PosOf(board_log[j].sprint)
                 \/ /\ board_log[i].sprint = board_log[j].sprint
                    /\ board_log[i].startAt < board_log[j].startAt
    /\ \A i \in 1..Len(board_log) :
         board_log[i].fetch = "issues" =>
            \E j \in FetchesOf(board_log[i].sprint) : board_log[j].startAt = 0
    /\ (\E i \in 1..Len(board_log) : board_log[i].fetch = "issues") =>
         /\ board_pc # "sprints"
         /\ Len(sprint_ids) = Len(df_all_sprints.rows)
    /\ \A r \in 1..Len(issue_rows) :
         issue_rows[r][Len(BoardIssueColumns)] = SprintId(issue_rows[r][1] \div 100)

\* the function has ended, by returning its table or by an exception
BoardEnded == board_pc \in {"returned", "raised"}

AllRequestsSucceeded == \A i \in 1..Len(board_log) : board_log[i].ok

\* C16: the sprint-list fetch completes before the first sprint-issue
\* request; then exactly one paginated sprint-issue fetch is run per
\* fetched sprint, in sprint-list order and one after the other, the
\* requests of two sprints never interleaving; every issue row is tagged
\* with the id of the sprint whose fetch produced it.
C16_OneFetchPerSprintInOrder ==
    /\ RequestsInOrder
    /\ (BoardEnded /\ AllRequestsSucceeded) =>
         \A q \in 1..Len(sprint_ids) : FetchesOf(sprint_ids[q]) # {}

\* what holds: the order, one request per step, and one fetch per sprint
\* when the table is returned
C16_InOrderAndCompleteOnReturn ==
    /\ [](RequestsInOrder)
    /\ [][Len(board_log') <= Len(board_log) + 1]_vars
    /\ [](board_pc \in {"assemble", "returned"} =>
            \A q \in 1..Len(sprint_ids) : FetchesOf(sprint_ids[q]) # {})

\* a board of two sprints, each with issues, assembled after six requests
C16_TwoSprintsAssembled ==
    /\ board_pc = "returned"
    /\ Len(sprint_ids) = 2
    /\ Len(board_log) = 6
    /\ AllRequestsSucceeded
    /\ Len(df_board_issues_enhanced.rows) = issue_counts[1] + issue_counts[2]

\* the first sprint has no issues and the second has: every request
\* succeeded, the function raised KeyError and the second sprint was never
\* fetched
C16_SecondSprintNeverFetched ==
    /\ board_pc = "raised"
    /\ board_raised = "KeyError"
    /\ AllRequestsSucceeded
    /\ Len(sprint_ids) = 2
    /\ issue_counts[1] = 0
    /\ issue_counts[2] > 0
    /\ FetchesOf(sprint_ids[2]) = {}

\* the ids of the issues the sprints of the board hold on the server
BoardIssueIds ==
    UNION {{100 * j + k : k \in 1..issue_counts[j]} : j \in 1..sprint_count}

\* C19: when all its requests succeed jira_get_board_issues returns without
\* raising, also for a board without sprints and for a board with a sprint
\* without issues, and the table it returns holds exactly the issue rows of
\* the sprints that have issues.
C19_BoardIssuesNeverRaises ==
    AllRequestsSucceeded =>
        /\ board_pc # "raised"
        /\ board_pc = "returned" =>
             /\ Len(df_board_issues_enhanced.rows) = Cardinality(BoardIssueIds)
             /\ \A r \in 1..Len(df_board_issues_enhanced.rows) :
                  Cell(df_board_issues_enhanced, r, "issue_id") \in BoardIssueIds

\* what holds: a table that is returned after successful requests holds the
\* issue rows of all sprints, each of which has issues
C19_ReturnedTableIsComplete ==
    (AllRequestsSucceeded /\ board_pc = "returned") =>
        /\ sprint_count > 0
        /\ \A j \in 1..sprint_count : issue_counts[j] > 0
        /\ Len(df_board_issues_enhanced.rows) = Cardinality(BoardIssueIds)
        /\ \A r \in 1..Len(df_board_issues_enhanced.rows) :
             Cell(df_board_issues_enhanced, r, "issue_id") \in BoardIssueIds

\* a board without sprints: the one request succeeded and reading
\* df_all_sprints.id raised AttributeError
C19_RaisedOnBoardWithoutSprints ==
    /\ sprint_count = 0
    /\ AllRequestsSucceeded
    /\ Len(board_log) = 1
    /\ board_pc = "raised"
    /\ board_raised = "AttributeError"

\* a board whose only sprint has no issues: both requests succeeded and
\* selecting the nine columns raised KeyError
C19_RaisedOnSprintWithoutIssues ==
    /\ sprint_count = 1
    /\ issue_counts[1] = 0
    /\ AllRequestsSucceeded
    /\ board_pc = "raised"
    /\ board_raised = "KeyError"

(***************************************************************************)
(* Termination of the paginated fetch (specification SpecFair)             *)
(***************************************************************************)
\* the last response was an empty page or an error value
EmptyPageOrError ==
    \/ response.tag = "error"
    \/ response.tag = "response" /\ Len(response.text.items) = 0

\* C21: every paginated fetch terminates: against a server with a finite
\* collection that honours startAt and answers every request with a page or
\* an error, the loop eventually receives an empty page or an error and the
\* function returns; and the loop has no other exit, so a successful page
\* with elements is always followed by another pass through the loop.
C21_EveryFetchReturns ==
    /\ <>(pc = "returned" /\ EmptyPageOrError)
    /\ [][ReceivedNonEmptyPage => (pc' = "loop" /\ has_next')]_vars

\* the function has been left, by return or by an exception
FetchEnded == pc \in {"returned", "raised"}

\* a bound on the steps a fetch has left: none when it has ended, the
\* return when the loop has been left, and otherwise the requests up to the
\* one past the end of the collection
Remaining ==
    IF FetchEnded THEN 0
    ELSE IF pc = "break" \/ ~has_next THEN 1
    ELSE 2 + (CeilDiv(total, block_size) + 1 - Len(requests))

\* what holds: every fetch ends, by returning or by raising
C21_EveryFetchEnds ==
    <>FetchEnded

\* the same of finite runs: every step brings the fetch nearer to its end,
\* so no run takes more steps than Remaining allows at its start
C21_EveryStepNearerToEnd ==
    /\ [](Remaining >= 0)
    /\ [][Remaining' < Remaining]_vars

\* what holds: a fetch returns only after an empty page or an error value,
\* and raises only where the configuration is incomplete, where an error
\* value is not one the function tests for, or in jira_get_backlog_issues
C21_EndsOfTheLoop ==
    /\ pc = "returned" => EmptyPageOrError
    /\ pc = "raised" =>
         \/ response.tag = "raise"
         \/ fetcher = "jira_get_backlog_issues"
         \/ /\ response.tag = "error"
            /\ ~(FetcherGuarded(fetcher)
                  /\ response.type = "requests.exceptions.HTTPError")

\* jira_get_issues, configured, has raised AttributeError on the error
\* value of its first request: it received an error and does not return
C21_RaisedInsteadOfReturned ==
    /\ fetcher = "jira_get_issues"
    /\ Configured
    /\ Len(requests) = 1
    /\ response.tag = "error"
    /\ pc = "raised"
    /\ raised = "AttributeError"

=============================================================================
